---- MODULE Spec2Model ----
(***************************************************************************)
(* Model of the y-junctions importer (backend/src/importer).               *)
(*                                                                         *)
(*   SpecIndex    NodeConnectionCounter (detector.rs): add_way, the three  *)
(*                queries.                                                 *)
(*   SpecAngles   calculate_junction_angles (calculator.rs) on arbitrary   *)
(*                point lists.                                             *)
(*   SpecPipeline parse_pbf (parser.rs): the three passes and the          *)
(*                per-candidate assembly.                                  *)
(***************************************************************************)
EXTENDS Integers, Sequences, FiniteSets, TLC

(***************************************************************************)
(* Bounds of the model.                                                    *)
(***************************************************************************)
\* way ids handed to add_way in SpecIndex are 1..MaxWayId
MaxWayId == 3
\* node ids used in SpecIndex are 1..MaxIndexNode
MaxIndexNode == 2
\* longest node list of a way in SpecIndex
MaxWayLen == 3
\* number of add_way calls in one behaviour of SpecIndex
MaxAdds == 3
\* bearings are fixed-point numbers with BearingUnits units per degree
BearingUnits == 4
\* SpecAngles draws the library's bearings from the values r of [-180, 180] degrees
\* with r % BearingStep < BearingFine (units), and point lists of up to MaxPoints
BearingStep == 360
BearingFine == 3
MaxPoints == 4
\* SpecPipeline: the file holds the ways 1..MaxFileWays and nodes among 1..MaxFileNode,
\* at most MaxMissingNodes of which are missing; bbox corners lie in 0..BBoxMax
MaxFileWays == 3
MaxFileNode == 5
MaxMissingNodes == 1
\* the DEM lacks the elevation of at most MaxDemGaps positions
MaxDemGaps == 1
BBoxMax == 4
\* SpecAddWay: up to MaxLoggedAdds calls, way ids 1..MaxLoggedWayId, node lists of
\* up to MaxLoggedWayLen nodes
MaxLoggedAdds == 4
MaxLoggedWayId == 3
MaxLoggedWayLen == 2

(***************************************************************************)
(* Generic helpers: maps with a dynamic key set (HashMap), sequences.      *)
(***************************************************************************)
EmptyMap == [k \in {} |-> 0]

\* HashMap::insert(k, v)
MapInsert(m, k, v) == [x \in (DOMAIN m) \cup {k} |-> IF x = k THEN v ELSE m[x]]

Range(s) == {s[i] : i \in DOMAIN s}

\* every sequence that lists each element of the finite set S exactly once:
\* the iteration orders a HashSet / HashMap holding S may produce
Orders(S) ==
    {s \in [1..Cardinality(S) -> S] : \A a \in S : \E i \in DOMAIN s : s[i] = a}

SeqsUpTo(S, n) == UNION {[1..k -> S] : k \in 0..n}

Abs(x) == IF x < 0 THEN -x ELSE x

Min3(a, b, c) == IF a <= b /\ a <= c THEN a ELSE IF b <= c THEN b ELSE c

(***************************************************************************)
(* State.                                                                  *)
(***************************************************************************)
VARIABLES
    \* NodeConnectionCounter
    node_to_ways,   \* node id -> set of way ids            (detector.rs:91)
    way_nodes,      \* way id  -> sequence of node ids      (detector.rs:93)
    way_tags,       \* way id  -> [bridge, tunnel]          (detector.rs:95)
    \* SpecIndex: the calls made so far and the value returned by the last query
    calls,          \* set of [id, nodes] handed to add_way (history)
    adds,           \* number of add_way calls made
    ret,            \* [op, arg, val] of the last query, op = "none" before any
    \* SpecAngles: one call of calculate_junction_angles
    ang_in,         \* per point, the bearing haversine_bearing(center, point) yields
    ang_called,     \* whether the call was made
    ang_out,        \* the value returned: None or Some([angles, bearings])
    \* SpecPipeline: one call of parse_pbf
    pc,             \* "pass1", "pass2", "pass3", "assemble", "done" ("idle": no call)
    idx,            \* position of the next element of the pass / next junction
    bbox,           \* [min_lon, min_lat, max_lon, max_lat]            (parser.rs:13)
    elevation_dir,  \* whether a DEM directory was given               (parser.rs:12)
    file_nodes,     \* node id -> whether the file holds the node, for the nodes read so far
    highway_ok,     \* way id -> whether its highway tag is on the documented list (history)
    candidates,     \* Vec<YJunctionCandidate>                         (parser.rs:64)
    node_coords,    \* node id -> <<lat, lon>>                         (parser.rs:79)
    y_junctions,    \* Vec<YJunctionWithCoords>                        (parser.rs:122)
    all_neighbor_ids,   \*                                             (parser.rs:149)
    neighbor_coords,    \* node id -> <<lat, lon>>                     (parser.rs:163)
    junctions_for_insert,   \* Vec<JunctionForInsert>, the value returned  (parser.rs:190)
    trace,          \* per junction assembled: [node_id, outcome, lookups] (history)
    \* SpecAddWay: the arguments of the last add_way call
    last_add,       \* None, or Some([id, nodes, bridge, tunnel, times]): the last call
                    \* and how many times in a row it was made (history)
    \* one call of a function without state
    fn_in,          \* the arguments of the call
    fn_out,         \* None, or Some(value returned)
    \* ElevationProvider and the DEM files it reads
    cache,          \* mesh code -> GsiTile                            (elevation.rs:86)
    mesh_to_file,   \* mesh code -> path                               (elevation.rs:88)
    dem_files,      \* path -> what parse_xml_file makes of the file
    lookups,        \* per get_elevation call: [lat, lon, hit, cached, result] (history)
    \* one call of insert_junctions and the statements the database received
    ins_pc,         \* "start", "batches", "commit", "done" ("idle": no call)
    junctions,      \* the argument                                    (inserter.rs:9)
    inserted_count, \*                                                 (inserter.rs:22)
    db_log,         \* the statements executed, in order: [op, rows]
    ins_ret,        \* None, or Some("Ok"), Some("Err"): the value returned
    \* the table y_junctions
    store,          \* osm_node_id -> row, as committed
    tx_store,       \* None, or Some(table as the open transaction sees it)
    \* one call of bulk_update_elevations
    upd_pc,         \* "start", "batches", "commit", "done" ("idle": no call)
    updates,        \* the argument                                 (repository.rs:304)
    updated_chunks, \* the number of chunks executed
    total_updated,  \*                                              (repository.rs:315)
    upd_ret,        \* None, or Some([ok, value]): the value returned
    \* one run of the import command
    run_pc,         \* "main", "import", "insert", "exit" ("idle": no run)
    bbox_arg,       \* the --bbox argument, a string                  (bin/import.rs:15)
    args_bbox,      \* None, or Some(the four numbers main parsed)
    run_ret,        \* None, or Some("Ok"), Some("Err"): the value main returned
    \* one call of import_elevation_data
    bf_pc,          \* "start", "find_all", "scan", "update", "done" ("idle": no call)
    found,          \* the rows find_all returned                     (mod.rs:40)
    bf_idx,         \* position of the next junction of the loop      (mod.rs:51)
    bf_trace,       \* per junction handled: [id, junction, neighbors] (history)
    bf_ret          \* None, or Some([ok, value]): the value returned

index_vars == <<node_to_ways, way_nodes, way_tags>>
query_vars == <<calls, adds, ret>>
angle_vars == <<ang_in, ang_called, ang_out>>
pipeline_vars == <<pc, idx, bbox, elevation_dir, file_nodes, highway_ok, candidates,
                   node_coords, y_junctions, all_neighbor_ids, neighbor_coords,
                   junctions_for_insert, trace>>
pure_vars == <<fn_in, fn_out>>
provider_vars == <<cache, mesh_to_file, dem_files, lookups>>
inserter_vars == <<ins_pc, junctions, inserted_count, db_log, ins_ret>>
store_vars == <<store, tx_store>>
update_vars == <<upd_pc, updates, updated_chunks, total_updated, upd_ret>>
run_vars == <<run_pc, bbox_arg, args_bbox, run_ret>>
backfill_vars == <<bf_pc, found, bf_idx, bf_trace, bf_ret>>
aux_vars == <<last_add, pure_vars, provider_vars, inserter_vars, store_vars, update_vars,
              run_vars, backfill_vars>>
vars == <<node_to_ways, way_nodes, way_tags, calls, adds, ret, ang_in, ang_called, ang_out,
          pc, idx, bbox, elevation_dir, file_nodes, highway_ok, candidates,
          node_coords, y_junctions, all_neighbor_ids, neighbor_coords,
          junctions_for_insert, trace, last_add, fn_in, fn_out,
          cache, mesh_to_file, dem_files, lookups,
          ins_pc, junctions, inserted_count, db_log, ins_ret,
          store, tx_store, upd_pc, updates, updated_chunks, total_updated, upd_ret,
          run_pc, bbox_arg, args_bbox, run_ret, bf_pc, found, bf_idx, bf_trace, bf_ret>>

\* Option<T>
None == <<>>
Some(v) == <<v>>

NoRet == [op |-> "none", arg |-> 0, val |-> <<>>]

\* NodeConnectionCounter::new, no call made yet
NewIndex ==
    /\ node_to_ways = EmptyMap
    /\ way_nodes = EmptyMap
    /\ way_tags = EmptyMap
    /\ calls = {}
    /\ adds = 0
    /\ ret = NoRet

NoAngleCall == ang_in = <<>> /\ ang_called = FALSE /\ ang_out = None

NoLoggedAdd == last_add = None

NoPureCall == fn_in = <<>> /\ fn_out = None

NoProvider ==
    cache = EmptyMap /\ mesh_to_file = EmptyMap /\ dem_files = EmptyMap /\ lookups = <<>>

NoInsertCall ==
    /\ ins_pc = "idle"
    /\ junctions = <<>>
    /\ inserted_count = 0
    /\ db_log = <<>>
    /\ ins_ret = None

NoStore == store = EmptyMap /\ tx_store = None

NoUpdateCall ==
    /\ upd_pc = "idle"
    /\ updates = <<>>
    /\ updated_chunks = 0
    /\ total_updated = 0
    /\ upd_ret = None

NoRun == run_pc = "idle" /\ bbox_arg = <<>> /\ args_bbox = None /\ run_ret = None

NoBackfill ==
    bf_pc = "idle" /\ found = <<>> /\ bf_idx = 1 /\ bf_trace = <<>> /\ bf_ret = None

NoBBox == [min_lon |-> 0, min_lat |-> 0, max_lon |-> 0, max_lat |-> 0]

\* the locals of parse_pbf before the first pass
NewParse ==
    /\ idx = 1
    /\ file_nodes = EmptyMap
    /\ highway_ok = EmptyMap
    /\ candidates = <<>>
    /\ node_coords = EmptyMap
    /\ y_junctions = <<>>
    /\ all_neighbor_ids = {}
    /\ neighbor_coords = EmptyMap
    /\ junctions_for_insert = <<>>
    /\ trace = <<>>

NoParseCall == pc = "idle" /\ bbox = NoBBox /\ elevation_dir = FALSE /\ NewParse

(***************************************************************************)
(* detector.rs: NodeConnectionCounter                                      *)
(***************************************************************************)
\* WayTagInfo { bridge, tunnel }; Default is (false, false)
WayTagInfo(bridge, tunnel) == [bridge |-> bridge, tunnel |-> tunnel]
WayTagInfoDefault == WayTagInfo(FALSE, FALSE)

\* NodeConnectionCounter::new: the 13 accepted highway values
valid_highway_types ==
    {"motorway", "trunk", "primary", "secondary", "tertiary",
     "residential", "unclassified", "service",
     "motorway_link", "trunk_link", "primary_link", "secondary_link", "tertiary_link"}

\* every way that has a highway tag taken
is_valid_highway_type_any(highway_type) == TRUE

is_valid_highway_type(highway_type) == highway_type \in valid_highway_types

\* add_way with the way set of a node overwritten instead of extended
add_way_node_to_ways_overwrite(n2w, way_id, node_ids) ==
    [n \in (DOMAIN n2w) \cup Range(node_ids) |->
        IF n \in Range(node_ids) THEN {way_id} ELSE n2w[n]]

\* the node list appended to the one stored under the way id instead of replacing it
add_way_way_nodes_extend(wn, way_id, node_ids) ==
    MapInsert(wn, way_id, (IF way_id \in DOMAIN wn THEN wn[way_id] ELSE <<>>) \o node_ids)

\* `self.way_nodes.insert(way_id, node_ids.to_vec())`
add_way_way_nodes(wn, way_id, node_ids) == MapInsert(wn, way_id, node_ids)

\* the for loop of add_way: node_to_ways.entry(node_id).or_default().insert(way_id)
add_way_node_to_ways(n2w, way_id, node_ids) ==
    [n \in (DOMAIN n2w) \cup Range(node_ids) |->
        IF n \in Range(node_ids)
        THEN (IF n \in DOMAIN n2w THEN n2w[n] ELSE {}) \cup {way_id}
        ELSE n2w[n]]

\* nodes.iter().position(|&id| id == junction): index of the first occurrence, 0 if none
RECURSIVE position_from(_, _, _)
position_from(nodes, junction, i) ==
    IF i > Len(nodes) THEN 0
    ELSE IF nodes[i] = junction THEN i
    ELSE position_from(nodes, junction, i + 1)

\* rposition: index of the last occurrence, 0 if none
RECURSIVE position_last_from(_, _, _)
position_last_from(nodes, junction, i) ==
    IF i < 1 THEN 0
    ELSE IF nodes[i] = junction THEN i
    ELSE position_last_from(nodes, junction, i - 1)

position_last(nodes, junction) == position_last_from(nodes, junction, Len(nodes))

position(nodes, junction) == position_from(nodes, junction, 1)

\* the neighbor one way contributes: <<id>> or <<>> (prefer next, fall back to previous)
way_neighbor(nodes, junction) ==
    LET pos == position(nodes, junction) IN
    IF pos = 0 THEN <<>>
    ELSE IF pos + 1 <= Len(nodes) THEN <<nodes[pos + 1]>>
    ELSE IF pos > 1 THEN <<nodes[pos - 1]>>
    ELSE <<>>

\* get_neighboring_nodes, the way set iterated in the order `order`
RECURSIVE neighboring_nodes_in(_, _, _)
neighboring_nodes_in(wn, junction, order) ==
    IF order = <<>> THEN <<>>
    ELSE LET way_id == Head(order)
             here == IF way_id \in DOMAIN wn THEN way_neighbor(wn[way_id], junction)
                     ELSE <<>>
         IN here \o neighboring_nodes_in(wn, junction, Tail(order))

\* get_neighbors_with_tags with the tags looked up under the junction id, not
\* the way id: the lookup misses and every neighbor gets the default tags
neighbors_with_tags_in_wrong_key(wn, wt, junction, order) ==
    [i \in DOMAIN neighboring_nodes_in(wn, junction, order) |->
        [neighbor |-> neighboring_nodes_in(wn, junction, order)[i],
         tags |-> WayTagInfoDefault]]

\* get_neighbors_with_tags, the way set iterated in the order `order`
RECURSIVE neighbors_with_tags_in(_, _, _, _)
neighbors_with_tags_in(wn, wt, junction, order) ==
    IF order = <<>> THEN <<>>
    ELSE LET way_id == Head(order)
             nb == IF way_id \in DOMAIN wn THEN way_neighbor(wn[way_id], junction)
                   ELSE <<>>
             tags == IF way_id \in DOMAIN wt THEN wt[way_id] ELSE WayTagInfoDefault
             here == IF nb = <<>> THEN <<>>
                     ELSE <<[neighbor |-> nb[1], tags |-> tags]>>
         IN here \o neighbors_with_tags_in(wn, wt, junction, Tail(order))

\* the way set of a node, {} when the node is not a key
ways_of(n2w, n) == IF n \in DOMAIN n2w THEN n2w[n] ELSE {}

\* get_connection_count
get_connection_count(n2w, n) == Cardinality(ways_of(n2w, n))

\* find_y_junction_candidates: the possible return values, one per iteration
\* order of the map and of each way set
find_y_junction_candidates(n2w) ==
    LET hits == {n \in DOMAIN n2w : Cardinality(n2w[n]) = 3} IN
    {c \in [1..Cardinality(hits) -> [node_id : hits, connected_ways : UNION {Orders(n2w[n]) : n \in hits}]] :
        /\ \A n \in hits : \E i \in DOMAIN c : c[i].node_id = n
        /\ \A i \in DOMAIN c : Range(c[i].connected_ways) = n2w[c[i].node_id]}

(***************************************************************************)
(* calculator.rs                                                           *)
(***************************************************************************)
FullTurn == 360 * BearingUnits

\* A bearing the library returns that is negative and smaller in magnitude than
\* half the spacing of the f64 values next to 360.0 (2.8e-14 degrees), e.g. from
\* (0, 0) to (lat 45, lon -1e-20). It is below the fixed-point resolution, so it
\* has a code of its own outside [-180, 180] degrees.
NegTiny == -(180 * BearingUnits) - 1

\* calculate_bearing: `if bearing < 0.0 { bearing + 360.0 } else { bearing }`.
\* The f64 sum NegTiny + 360.0 rounds to 360.0.
calculate_bearing(haversine_bearing) ==
    IF haversine_bearing = NegTiny THEN FullTurn
    ELSE IF haversine_bearing < 0 THEN haversine_bearing + FullTurn
    ELSE haversine_bearing

\* f64::round on a fixed-point value, to whole degrees: half away from zero
round(d) ==
    IF d >= 0 THEN (2 * d + BearingUnits) \div (2 * BearingUnits)
    ELSE -((2 * (-d) + BearingUnits) \div (2 * BearingUnits))

\* `as i16`: a saturating cast
as_i16(x) == IF x > 32767 THEN 32767 ELSE IF x < -32768 THEN -32768 ELSE x

\* insertion of x behind the elements <= x (a stable ascending sort step)
RECURSIVE insert_sorted(_, _)
insert_sorted(sorted, x) ==
    IF sorted = <<>> THEN <<x>>
    ELSE IF Head(sorted) <= x THEN <<Head(sorted)>> \o insert_sorted(Tail(sorted), x)
    ELSE <<x>> \o sorted

RECURSIVE sort_from(_, _, _)
sort_from(s, i, acc) ==
    IF i > Len(s) THEN acc ELSE sort_from(s, i + 1, insert_sorted(acc, s[i]))

\* bearings left in the order of the points
sort_bearings_skipped(bearings) == bearings

\* bearings.sort_by(|a, b| a.partial_cmp(b).unwrap())
sort_bearings(bearings) == sort_from(bearings, 1, <<>>)

\* the wrap-around segment with the sign of bearings[0] slipped
wrap_angle_minus(bearings) == FullTurn - bearings[3] - bearings[1]

\* angle3 = 360.0 - bearings[2] + bearings[0]
wrap_angle(bearings) == FullTurn - bearings[3] + bearings[1]

\* calculate_junction_angles; `points` holds the library's bearing of each point
calculate_junction_angles(points) ==
    IF Len(points) # 3 THEN None
    ELSE LET bearings == sort_bearings([i \in DOMAIN points |-> calculate_bearing(points[i])])
             angle1 == bearings[2] - bearings[1]
             angle2 == bearings[3] - bearings[2]
             angle3 == wrap_angle(bearings)
         IN Some([angles |-> <<as_i16(round(angle1)), as_i16(round(angle2)), as_i16(round(angle3))>>,
                  bearings |-> <<bearings[1], bearings[2], bearings[3]>>])

(***************************************************************************)
(* SpecAngles: one call of calculate_junction_angles on any point list.    *)
(***************************************************************************)
RawBearingInputs ==
    {r \in (-180 * BearingUnits)..(180 * BearingUnits) : r % BearingStep < BearingFine}
        \cup {NegTiny}

CalculateJunctionAngles ==
    /\ ~ang_called
    /\ ang_called' = TRUE
    /\ ang_out' = calculate_junction_angles(ang_in)
    /\ UNCHANGED <<index_vars, query_vars, ang_in, pipeline_vars, aux_vars>>

InitAngles ==
    /\ NewIndex
    /\ NoRun
    /\ NoBackfill
    /\ NoParseCall
    /\ NoLoggedAdd
    /\ NoPureCall
    /\ NoProvider
    /\ NoInsertCall
    /\ NoStore
    /\ NoUpdateCall
    /\ \E k \in 0..MaxPoints : ang_in \in [1..k -> RawBearingInputs]
    /\ ang_called = FALSE
    /\ ang_out = None

NextAngles == CalculateJunctionAngles

SpecAngles == InitAngles /\ [][NextAngles]_vars

(***************************************************************************)
(* SpecIndex: any sequence of add_way calls and queries.                   *)
(***************************************************************************)
IndexNodes == 1..MaxIndexNode
IndexWayIds == 1..MaxWayId

AddWay(way_id, node_ids, bridge, tunnel) ==
    /\ adds < MaxAdds
    /\ way_nodes' = add_way_way_nodes(way_nodes, way_id, node_ids)
    /\ way_tags' = MapInsert(way_tags, way_id, WayTagInfo(bridge, tunnel))
    /\ node_to_ways' = add_way_node_to_ways(node_to_ways, way_id, node_ids)
    /\ calls' = calls \cup {[id |-> way_id, nodes |-> node_ids]}
    /\ adds' = adds + 1
    /\ ret' = NoRet
    /\ UNCHANGED <<angle_vars, pipeline_vars, aux_vars>>

FindCandidates ==
    /\ \E c \in find_y_junction_candidates(node_to_ways) :
          ret' = [op |-> "candidates", arg |-> 0, val |-> c]
    /\ UNCHANGED <<index_vars, calls, adds, angle_vars, pipeline_vars, aux_vars>>

GetNeighboringNodes(junction) ==
    /\ \E order \in Orders(ways_of(node_to_ways, junction)) :
          ret' = [op |-> "neighbors", arg |-> junction,
                  val |-> neighboring_nodes_in(way_nodes, junction, order)]
    /\ UNCHANGED <<index_vars, calls, adds, angle_vars, pipeline_vars, aux_vars>>

GetNeighborsWithTags(junction) ==
    /\ \E order \in Orders(ways_of(node_to_ways, junction)) :
          ret' = [op |-> "neighbors_with_tags", arg |-> junction,
                  val |-> neighbors_with_tags_in(way_nodes, way_tags, junction, order)]
    /\ UNCHANGED <<index_vars, calls, adds, angle_vars, pipeline_vars, aux_vars>>

InitIndex == NewIndex /\ NoRun /\ NoBackfill /\ NoAngleCall /\ NoParseCall /\ NoLoggedAdd /\ NoPureCall /\ NoProvider
    /\ NoInsertCall
    /\ NoStore
    /\ NoUpdateCall

NextIndex ==
    \/ \E w \in IndexWayIds, ns \in SeqsUpTo(IndexNodes, MaxWayLen) :
          AddWay(w, ns, FALSE, FALSE)
    \/ FindCandidates
    \/ \E j \in IndexNodes : GetNeighboringNodes(j)
    \/ \E j \in IndexNodes : GetNeighborsWithTags(j)

SpecIndex == InitIndex /\ [][NextIndex]_vars

(***************************************************************************)
(* SpecAddWay: any sequence of add_way calls, the last call remembered.    *)
(***************************************************************************)
\* add_way, and the call noted in last_add
AddWayLogged(way_id, node_ids, bridge, tunnel) ==
    /\ adds < MaxLoggedAdds
    /\ way_nodes' = add_way_way_nodes(way_nodes, way_id, node_ids)
    /\ way_tags' = MapInsert(way_tags, way_id, WayTagInfo(bridge, tunnel))
    /\ node_to_ways' = add_way_node_to_ways(node_to_ways, way_id, node_ids)
    /\ calls' = calls \cup {[id |-> way_id, nodes |-> node_ids]}
    /\ adds' = adds + 1
    /\ last_add' =
          LET same == /\ last_add # None
                      /\ last_add[1].id = way_id /\ last_add[1].nodes = node_ids
                      /\ last_add[1].bridge = bridge /\ last_add[1].tunnel = tunnel
          IN Some([id |-> way_id, nodes |-> node_ids, bridge |-> bridge, tunnel |-> tunnel,
                   times |-> IF same THEN last_add[1].times + 1 ELSE 1])
    /\ UNCHANGED <<ret, angle_vars, pipeline_vars, pure_vars, provider_vars, inserter_vars, store_vars, update_vars, run_vars, backfill_vars>>

\* the <<bridge, tunnel>> arguments tried
TagPairs == {<<FALSE, FALSE>>, <<TRUE, FALSE>>, <<FALSE, TRUE>>}

InitAddWay == NewIndex /\ NoRun /\ NoBackfill /\ NoAngleCall /\ NoParseCall /\ NoLoggedAdd /\ NoPureCall /\ NoProvider
    /\ NoInsertCall
    /\ NoStore
    /\ NoUpdateCall

NextAddWay ==
    \E w \in 1..MaxLoggedWayId, ns \in SeqsUpTo(IndexNodes, MaxLoggedWayLen),
       t \in TagPairs :
        AddWayLogged(w, ns, t[1], t[2])

SpecAddWay == InitAddWay /\ [][NextAddWay]_vars

(***************************************************************************)
(* parser.rs: the inputs of one parse_pbf call.                            *)
(*                                                                         *)
(* The file holds the ways 1..MaxFileWays, in this order, and nodes among  *)
(* 1..MaxFileNode, in this order.  Coordinates are grid positions          *)
(* <<lat, lon>>; node 1 lies in the middle, the others around it.          *)
(***************************************************************************)
FileWayIds == 1..MaxFileWays
FileNodeIds == 1..MaxFileNode

\* way.tags().find(highway): None, or Some(value)
HighwayInputs ==
    {None} \cup {Some(v) : v \in valid_highway_types \cup {"footway", "cycleway", "path"}}

\* way.refs(): node 1 alone, or node 1 followed or preceded by one other node
PipelineWayRefs ==
    {<<1>>} \cup {IF k % 2 = 0 THEN <<1, k>> ELSE <<k, 1>> : k \in 2..MaxFileNode}

\* the <<bridge, tunnel>> flags read from the way
TagInputs == {<<TRUE, FALSE>>, <<FALSE, TRUE>>}

\* node.lat(), node.lon()
NodePosition(n) ==
    CASE n = 1 -> <<2, 2>>
      [] n = 2 -> <<3, 2>>
      [] n = 3 -> <<3, 3>>
      [] n = 4 -> <<1, 2>>
      [] n = 5 -> <<2, 1>>
      [] n = 6 -> <<2, 3>>
      [] OTHER -> <<4, 3>>

\* the bboxes (min_lon, min_lat, max_lon, max_lat) tried: one axis spans the grid,
\* the other spans it too or is one cell wide
BBoxIntervals ==
    {iv \in (0..BBoxMax) \X (0..BBoxMax) : iv[2] = iv[1] + 1 \/ iv = <<0, BBoxMax>>}
BBoxInputs ==
    {[min_lon |-> lo[1], max_lon |-> lo[2], min_lat |-> la[1], max_lat |-> la[2]] :
        <<lo, la>> \in {p \in BBoxIntervals \X BBoxIntervals :
                            p[1] = <<0, BBoxMax>> \/ p[2] = <<0, BBoxMax>>}}

\* Haversine.bearing(from, to) in quarter degrees, by the offset <<dlat, dlon>>
HaversineQuarters(d) ==
    CASE d = <<1, 0>> -> 0       [] d = <<2, 0>> -> 0
      [] d = <<2, 1>> -> 106     [] d = <<1, 1>> -> 180    [] d = <<2, 2>> -> 180
      [] d = <<1, 2>> -> 254     [] d = <<0, 1>> -> 360    [] d = <<0, 2>> -> 360
      [] d = <<-1, 2>> -> 466    [] d = <<-1, 1>> -> 540   [] d = <<-2, 2>> -> 540
      [] d = <<-2, 1>> -> 614    [] d = <<-1, 0>> -> 720   [] d = <<-2, 0>> -> 720
      [] d = <<2, -1>> -> -106   [] d = <<1, -1>> -> -180  [] d = <<2, -2>> -> -180
      [] d = <<1, -2>> -> -254   [] d = <<0, -1>> -> -360  [] d = <<0, -2>> -> -360
      [] d = <<-1, -2>> -> -466  [] d = <<-1, -1>> -> -540 [] d = <<-2, -2>> -> -540
      [] d = <<-2, -1>> -> -614
      [] OTHER -> 0

\* Haversine.bearing(p1, p2) in bearing units, in (-180, 180] degrees
haversine_bearing(from, to) ==
    LET q == HaversineQuarters(<<to[1] - from[1], to[2] - from[2]>>) IN
    IF q >= 0 THEN (q * BearingUnits) \div 4 ELSE -(((-q) * BearingUnits) \div 4)

\* the elevation the DEM holds at a position, in metres
DemElevation(pos) == 100 + 5 * (pos[1] - 2) + 2 * (pos[2] - 2)

(***************************************************************************)
(* parser.rs: the per-candidate assembly and get_elevation_data.           *)
(***************************************************************************)
\* the least minimum angle, in degrees, of a junction taken for a T-junction
YAngleLimit == 60

\* the angle filter left out
is_t_junction_never(min_angle) == FALSE

\* `if min_angle >= 60 { continue; }`
is_t_junction(min_angle) == min_angle >= YAngleLimit

\* f64: a finite value is the integer itself; the three values below are not finite
PosInf == 1000000
NegInf == -1000000
NaN == 2000000

is_nan(x) == x = NaN
is_finite(x) == NegInf < x /\ x < PosInf

\* f64 `-`
f64_sub(a, b) ==
    IF is_nan(a) \/ is_nan(b) THEN NaN
    ELSE IF a = PosInf THEN (IF b = PosInf THEN NaN ELSE PosInf)
    ELSE IF a = NegInf THEN (IF b = NegInf THEN NaN ELSE NegInf)
    ELSE IF b = PosInf THEN NegInf
    ELSE IF b = NegInf THEN PosInf
    ELSE a - b

\* f64::abs
f64_abs(x) == IF is_nan(x) THEN NaN ELSE IF x = NegInf THEN PosInf ELSE Abs(x)

\* f64::min, f64::max: a NaN argument is ignored
f64_min(a, b) == IF is_nan(a) THEN b ELSE IF is_nan(b) THEN a ELSE IF a <= b THEN a ELSE b
f64_max(a, b) == IF is_nan(a) THEN b ELSE IF is_nan(b) THEN a ELSE IF a >= b THEN a ELSE b

\* f64 `<=`, `==`: false when an operand is NaN
f64_le(a, b) == ~is_nan(a) /\ ~is_nan(b) /\ a <= b
f64_eq(a, b) == ~is_nan(a) /\ ~is_nan(b) /\ a = b

\* Iterator::min_by_key over enumerate() from position i, best = <<index, key>> so far:
\* a later element replaces the best one only if its key is strictly smaller
RECURSIVE min_by_key_from(_, _, _)
min_by_key_from(angles, i, best) ==
    IF i > Len(angles) THEN best
    ELSE min_by_key_from(angles, i + 1,
                         IF angles[i] < best[2] THEN <<i - 1, angles[i]>> ELSE best)

\* the last of the smallest angles taken
calculate_min_angle_index_last(angles) ==
    CHOOSE i \in 1..3 :
        /\ \A j \in 1..3 : angles[i] <= angles[j]
        /\ \A j \in (i + 1)..3 : angles[j] > angles[i]

\* JunctionForInsert::calculate_min_angle_index: min_idx + 1
calculate_min_angle_index(angles) ==
    min_by_key_from(angles, 2, <<0, angles[1]>>)[1] + 1

\* JunctionForInsert::calculate_elevation_diffs
calculate_elevation_diffs(base, neighbors) ==
    [i \in 1..3 |-> f64_abs(f64_sub(base, neighbors[i]))]

\* JunctionForInsert::calculate_min_max_diffs: <<min, max>>
calculate_min_max_diffs(diffs) ==
    <<f64_min(f64_min(f64_min(PosInf, diffs[1]), diffs[2]), diffs[3]),
      f64_max(f64_max(f64_max(NegInf, diffs[1]), diffs[2]), diffs[3])>>

\* struct JunctionElevation
JunctionElevation(elevation, neighbor_elevations, diffs, min_angle_index, min_diff, max_diff) ==
    [elevation |-> elevation, neighbor_elevations |-> neighbor_elevations,
     elevation_diffs |-> diffs, min_angle_index |-> min_angle_index,
     min_elevation_diff |-> min_diff, max_elevation_diff |-> max_diff]

\* provider.get_elevation(lat, lon): Ok(None) at the positions of `gaps`,
\* Ok(Some(metres)) elsewhere
get_elevation(gaps, pos) == IF pos \in gaps THEN None ELSE Some(DemElevation(pos))

\* the junction elevation dropped when a neighbor elevation is missing
partial_elevation_dropped(junction_elevation) ==
    JunctionElevation(None, None, None, None, None, None)

\* the else arm of get_elevation_data: `elevation: junction_elevation`, the rest None
partial_elevation(junction_elevation) ==
    JunctionElevation(junction_elevation, None, None, None, None, None)

\* get_elevation_data. provider: whether there is an ElevationProvider;
\* gaps: the positions at which the DEM has no elevation
get_elevation_data(provider, gaps, junction_pos, neighbor_points, angles) ==
    IF ~provider THEN JunctionElevation(None, None, None, None, None, None)
    ELSE LET junction_elevation == get_elevation(gaps, junction_pos)
             neighbor_elevs == [i \in 1..3 |-> get_elevation(gaps, neighbor_points[i])]
         IN IF junction_elevation # None /\ \A i \in 1..3 : neighbor_elevs[i] # None
            THEN LET neighbor_elevations == [i \in 1..3 |-> neighbor_elevs[i][1]]
                     elevation_diffs ==
                         calculate_elevation_diffs(junction_elevation[1], neighbor_elevations)
                     min_max == calculate_min_max_diffs(elevation_diffs)
                 IN JunctionElevation(junction_elevation, Some(neighbor_elevations),
                                      Some(elevation_diffs),
                                      Some(calculate_min_angle_index(angles)),
                                      Some(min_max[1]), Some(min_max[2]))
            ELSE partial_elevation(junction_elevation)

\* insertion of the pair x behind the pairs whose bearing is <= x.bearing
RECURSIVE insert_pair_sorted(_, _)
insert_pair_sorted(sorted, x) ==
    IF sorted = <<>> THEN <<x>>
    ELSE IF Head(sorted).bearing <= x.bearing
         THEN <<Head(sorted)>> \o insert_pair_sorted(Tail(sorted), x)
    ELSE <<x>> \o sorted

RECURSIVE sort_pairs_from(_, _, _)
sort_pairs_from(s, i, acc) ==
    IF i > Len(s) THEN acc ELSE sort_pairs_from(s, i + 1, insert_pair_sorted(acc, s[i]))

\* parser.rs of this snapshot fills no way_k_bridge / way_k_tunnel field and
\* passes no flags to add_way; both follow the documented design (positional
\* pairing across the sort).
\* The way tags of a feature: the (bearing, tags) pairs of get_neighbors_with_tags,
\* sorted jointly by bearing (stable), tags kept.  neighbor_points[i] is the
\* coordinate of neighbors_with_tags[i].neighbor
sorted_way_tags(junction_pos, neighbors_with_tags, neighbor_points) ==
    LET pairs == [i \in DOMAIN neighbors_with_tags |->
                    [bearing |-> calculate_bearing(haversine_bearing(junction_pos,
                                     neighbor_points[i])),
                     tags |-> neighbors_with_tags[i].tags]]
        sorted == sort_pairs_from(pairs, 1, <<>>)
    IN [i \in DOMAIN sorted |-> sorted[i].tags]

\* a missing coordinate replaced by the default (0.0, 0.0) instead of left out
filter_map_coords_or_default(ids, coords) ==
    [i \in DOMAIN ids |-> IF ids[i] \in DOMAIN coords THEN coords[ids[i]] ELSE <<0, 0>>]

\* filter_map(|&id| neighbor_coords.get(&id).copied()).collect()
RECURSIVE filter_map_coords(_, _)
filter_map_coords(ids, coords) ==
    IF ids = <<>> THEN <<>>
    ELSE (IF Head(ids) \in DOMAIN coords THEN <<coords[Head(ids)]>> ELSE <<>>)
         \o filter_map_coords(Tail(ids), coords)

\* The body of `for junction in &y_junctions` for one junction, the way set
\* iterated in the order `order`: the feature pushed, or the reason for `continue`
assemble(junction, order, wn, wt, coords, provider, gaps) ==
    LET neighbor_ids == neighboring_nodes_in(wn, junction.node_id, order)
        neighbor_points == filter_map_coords(neighbor_ids, coords)
        junction_pos == <<junction.lat, junction.lon>>
    IN IF Len(neighbor_ids) # 3 THEN [outcome |-> "neighbor_count"]
       ELSE IF Len(neighbor_points) # 3 THEN [outcome |-> "neighbor_coords"]
       ELSE LET r == calculate_junction_angles(
                        [i \in 1..3 |-> haversine_bearing(junction_pos, neighbor_points[i])])
            IN IF r = None THEN [outcome |-> "angles"]
               ELSE LET angles == r[1].angles
                        bearings == r[1].bearings
                        min_angle == Min3(angles[1], angles[2], angles[3])
                    IN IF is_t_junction(min_angle) THEN [outcome |-> "t_junction"]
                       ELSE LET elev_data == get_elevation_data(provider, gaps,
                                                 junction_pos, neighbor_points, angles)
                                tags == sorted_way_tags(junction_pos,
                                            neighbors_with_tags_in(wn, wt, junction.node_id, order),
                                            neighbor_points)
                            IN [outcome |-> "pushed",
                                feature |->
                                  [osm_node_id |-> junction.node_id,
                                   lat |-> junction.lat, lon |-> junction.lon,
                                   angle_1 |-> angles[1], angle_2 |-> angles[2],
                                   angle_3 |-> angles[3],
                                   bearings |-> bearings,
                                   elevation |-> elev_data.elevation,
                                   neighbor_elevations |-> elev_data.neighbor_elevations,
                                   elevation_diffs |-> elev_data.elevation_diffs,
                                   min_angle_index |-> elev_data.min_angle_index,
                                   min_elevation_diff |-> elev_data.min_elevation_diff,
                                   max_elevation_diff |-> elev_data.max_elevation_diff,
                                   way_1_bridge |-> tags[1].bridge,
                                   way_1_tunnel |-> tags[1].tunnel,
                                   way_2_bridge |-> tags[2].bridge,
                                   way_2_tunnel |-> tags[2].tunnel,
                                   way_3_bridge |-> tags[3].bridge,
                                   way_3_tunnel |-> tags[3].tunnel]]

(***************************************************************************)
(* SpecPipeline: one call of parse_pbf on any file and bbox of the bounds. *)
(***************************************************************************)
\* The highway values the documentation lists as accepted
DocumentedHighways ==
    {"motorway", "trunk", "primary", "secondary", "tertiary"}
    \cup {"residential", "unclassified", "service"}
    \cup {"motorway_link", "trunk_link", "primary_link", "secondary_link", "tertiary_link"}

MissingNodes == {n \in DOMAIN file_nodes : ~file_nodes[n]}

\* Whether the file holds node n may be settled when the node is first looked for
MayHold(n, present) ==
    IF n \in DOMAIN file_nodes THEN present = file_nodes[n]
    ELSE present \/ Cardinality(MissingNodes) < MaxMissingNodes

\* counter.find_y_junction_candidates() as parse_pbf sees it: connected_ways is
\* copied and never read, so its ascending order stands for the others
candidate_lists(n2w) ==
    {c \in find_y_junction_candidates(n2w) :
        \A i \in DOMAIN c : \A a, b \in 1..3 :
            a < b => c[i].connected_ways[a] < c[i].connected_ways[b]}

\* Pass 1, one way element (way.id() = idx).  The bridge and tunnel flags are
\* read from the way's tags and passed to add_way
Pass1Way(highway, refs, bridge, tunnel) ==
    /\ pc = "pass1"
    /\ idx <= MaxFileWays
    /\ IF highway # None /\ is_valid_highway_type(highway[1])
       THEN /\ way_nodes' = add_way_way_nodes(way_nodes, idx, refs)
            /\ way_tags' = MapInsert(way_tags, idx, WayTagInfo(bridge, tunnel))
            /\ node_to_ways' = add_way_node_to_ways(node_to_ways, idx, refs)
       ELSE UNCHANGED index_vars
    /\ highway_ok' = MapInsert(highway_ok, idx,
                               highway # None /\ highway[1] \in DocumentedHighways)
    /\ idx' = idx + 1
    /\ UNCHANGED <<query_vars, angle_vars, aux_vars, pc, bbox, elevation_dir, file_nodes, candidates,
                   node_coords, y_junctions, all_neighbor_ids, neighbor_coords,
                   junctions_for_insert, trace>>

\* the first node id from `from` on that is in `ids`: the closure of a pass does
\* nothing on the node elements in between
next_node(ids, from) ==
    IF \E n \in ids : n >= from
    THEN CHOOSE n \in ids : n >= from /\ \A m \in ids : m >= from => n <= m
    ELSE MaxFileNode + 1

\* After pass 1: the candidates; return Ok(Vec::new()) when there are none.
\* The bbox arguments are drawn here, before pass 2 reads them
FindYJunctionCandidates(min_lon, min_lat, max_lon, max_lat) ==
    /\ pc = "pass1"
    /\ idx > MaxFileWays
    /\ \E c \in candidate_lists(node_to_ways) :
          /\ candidates' = c
          /\ pc' = IF c = <<>> THEN "done" ELSE "pass2"
          /\ bbox' = IF c = <<>> THEN bbox
                     ELSE [min_lon |-> min_lon, min_lat |-> min_lat,
                           max_lon |-> max_lon, max_lat |-> max_lat]
          /\ idx' = next_node({c[i].node_id : i \in DOMAIN c}, 1)
    /\ UNCHANGED <<index_vars, query_vars, angle_vars, aux_vars, elevation_dir, file_nodes,
                   highway_ok, node_coords, y_junctions, all_neighbor_ids, neighbor_coords,
                   junctions_for_insert, trace>>

\* the bbox taken without its border
within_bbox_exclusive(b, lat, lon) ==
    lon > b.min_lon /\ lon < b.max_lon /\ lat > b.min_lat /\ lat < b.max_lat

\* `lon >= min_lon && lon <= max_lon && lat >= min_lat && lat <= max_lat`
within_bbox(b, lat, lon) ==
    lon >= b.min_lon /\ lon <= b.max_lon /\ lat >= b.min_lat /\ lat <= b.max_lat

\* Pass 2, the node element of candidate idx if the file holds one (the Node and
\* DenseNode arms are the same code)
Pass2Node(present) ==
    /\ pc = "pass2"
    /\ idx <= MaxFileNode
    /\ MayHold(idx, present)
    /\ file_nodes' = MapInsert(file_nodes, idx, present)
    /\ LET lat == NodePosition(idx)[1]
           lon == NodePosition(idx)[2]
       IN node_coords' =
             IF present /\ within_bbox(bbox, lat, lon)
             THEN MapInsert(node_coords, idx, <<lat, lon>>)
             ELSE node_coords
    /\ idx' = next_node({candidates[i].node_id : i \in DOMAIN candidates}, idx + 1)
    /\ UNCHANGED <<index_vars, query_vars, angle_vars, aux_vars, pc, bbox, elevation_dir, highway_ok,
                   candidates, y_junctions, all_neighbor_ids, neighbor_coords,
                   junctions_for_insert, trace>>

\* candidates.iter().filter_map(|c| node_coords.get(&c.node_id).map(..)).collect()
RECURSIVE with_coords(_, _)
with_coords(cands, coords) ==
    IF cands = <<>> THEN <<>>
    ELSE (IF Head(cands).node_id \in DOMAIN coords
          THEN <<[node_id |-> Head(cands).node_id,
                  lat |-> coords[Head(cands).node_id][1],
                  lon |-> coords[Head(cands).node_id][2],
                  connected_ways |-> Head(cands).connected_ways]>>
          ELSE <<>>)
         \o with_coords(Tail(cands), coords)

\* the ids counter.get_neighboring_nodes(junction) returns, as a set
neighbor_id_set(wn, n2w, junction) ==
    UNION {Range(neighboring_nodes_in(wn, junction, order)) :
              order \in Orders(ways_of(n2w, junction))}

\* After pass 2: y_junctions and the union of their neighbor ids.
\* The elevation_dir argument is drawn here, where it is read.  With no neighbor
\* id pass 3 records nothing, with no junction the loop pushes nothing
CollectNeighborIds(dir) ==
    /\ pc = "pass2"
    /\ idx > MaxFileNode
    /\ y_junctions' = with_coords(candidates, node_coords)
    /\ all_neighbor_ids' =
          UNION {neighbor_id_set(way_nodes, node_to_ways, y_junctions'[i].node_id) :
                    i \in DOMAIN y_junctions'}
    /\ elevation_dir' = dir
    /\ pc' = IF y_junctions' = <<>> THEN "done"
             ELSE IF all_neighbor_ids' = {} THEN "assemble" ELSE "pass3"
    /\ idx' = IF all_neighbor_ids' = {} THEN 1 ELSE next_node(all_neighbor_ids', 1)
    /\ UNCHANGED <<index_vars, query_vars, angle_vars, aux_vars, bbox, file_nodes,
                   highway_ok, candidates, node_coords, neighbor_coords,
                   junctions_for_insert, trace>>

\* the bbox filter of pass 2 repeated in pass 3
pass3_insert_within_bbox(coords, node_id, lat, lon) ==
    IF within_bbox(bbox, lat, lon) THEN MapInsert(coords, node_id, <<lat, lon>>) ELSE coords

\* `neighbor_coords.insert(node_id, (node.lat(), node.lon()))`
pass3_insert(coords, node_id, lat, lon) == MapInsert(coords, node_id, <<lat, lon>>)

\* Pass 3, the node element of neighbor idx if the file holds one (the Node and
\* DenseNode arms are the same code)
Pass3Node(present) ==
    /\ pc = "pass3"
    /\ idx <= MaxFileNode
    /\ MayHold(idx, present)
    /\ file_nodes' = MapInsert(file_nodes, idx, present)
    /\ neighbor_coords' =
          IF present
          THEN pass3_insert(neighbor_coords, idx, NodePosition(idx)[1], NodePosition(idx)[2])
          ELSE neighbor_coords
    /\ LET next == next_node(all_neighbor_ids, idx + 1)
       IN /\ idx' = IF next > MaxFileNode THEN 1 ELSE next
          /\ pc' = IF next > MaxFileNode THEN "assemble" ELSE "pass3"
    /\ UNCHANGED <<index_vars, query_vars, angle_vars, aux_vars, bbox, elevation_dir, highway_ok,
                   candidates, node_coords, y_junctions, all_neighbor_ids,
                   junctions_for_insert, trace>>

\* What the DEM was asked in one iteration (history): None when get_elevation_data
\* was not reached or had no provider, else whether the DEM has the elevation of
\* the junction and of all the neighbors
dem_lookups(junction, order, gaps, outcome) ==
    IF outcome # "pushed" \/ ~elevation_dir THEN None
    ELSE Some([junction |-> <<junction.lat, junction.lon>> \notin gaps,
               neighbors |-> \A n \in Range(neighboring_nodes_in(way_nodes, junction.node_id, order)) :
                                 NodePosition(n) \notin gaps])

\* One iteration of `for junction in &y_junctions`, and Ok(junctions_for_insert)
\* after the last.  gaps: the positions at which the DEM has no elevation
Assemble(order, gaps) ==
    /\ pc = "assemble"
    /\ idx <= Len(y_junctions)
    /\ Range(order) = ways_of(node_to_ways, y_junctions[idx].node_id)
    /\ gaps \subseteq
          IF elevation_dir
          THEN {<<y_junctions[idx].lat, y_junctions[idx].lon>>}
               \cup {NodePosition(n) : n \in Range(neighboring_nodes_in(
                                            way_nodes, y_junctions[idx].node_id, order))}
          ELSE {}
    /\ LET junction == y_junctions[idx]
           r == assemble(junction, order, way_nodes, way_tags, neighbor_coords,
                         elevation_dir, gaps)
       IN /\ junctions_for_insert' =
                IF r.outcome = "pushed" THEN Append(junctions_for_insert, r.feature)
                ELSE junctions_for_insert
          /\ trace' = Append(trace, [node_id |-> junction.node_id, outcome |-> r.outcome,
                                    lookups |-> dem_lookups(junction, order, gaps, r.outcome)])
    /\ idx' = idx + 1
    /\ pc' = IF idx = Len(y_junctions) THEN "done" ELSE "assemble"
    /\ UNCHANGED <<index_vars, query_vars, angle_vars, aux_vars, bbox, elevation_dir, file_nodes,
                   highway_ok, candidates, node_coords, y_junctions, all_neighbor_ids,
                   neighbor_coords>>

GridPositions == {NodePosition(n) : n \in FileNodeIds}

DemGaps == {g \in SUBSET GridPositions : Cardinality(g) <= MaxDemGaps}

\* the iteration orders of the way set of a candidate
WayOrders == UNION {Orders(S) : S \in {T \in SUBSET FileWayIds : Cardinality(T) = 3}}

InitPipeline ==
    /\ NewIndex
    /\ NoRun
    /\ NoBackfill
    /\ NoAngleCall
    /\ NoLoggedAdd
    /\ NoPureCall
    /\ NoProvider
    /\ NoInsertCall
    /\ NoStore
    /\ NoUpdateCall
    /\ NewParse
    /\ pc = "pass1"
    /\ bbox = NoBBox
    /\ elevation_dir = FALSE

NextPipeline ==
    \/ \E highway \in HighwayInputs, refs \in PipelineWayRefs, t \in TagInputs :
          Pass1Way(highway, refs, t[1], t[2])
    \/ \E b \in BBoxInputs :
          FindYJunctionCandidates(b.min_lon, b.min_lat, b.max_lon, b.max_lat)
    \/ \E present \in BOOLEAN : Pass2Node(present)
    \/ \E dir \in BOOLEAN : CollectNeighborIds(dir)
    \/ \E present \in BOOLEAN : Pass3Node(present)
    \/ \E order \in WayOrders, gaps \in DemGaps : Assemble(order, gaps)

SpecPipeline == InitPipeline /\ [][NextPipeline]_vars

(***************************************************************************)
(* Properties of the adjacency index (SpecIndex).                          *)
(***************************************************************************)
\* the way ids that were handed to add_way with a node list containing n
ContainingWays(n) == {c.id : c \in {d \in calls : n \in Range(d.nodes)}}

NeighborOfFirstOccurrence(nodes, junction) ==
    LET occ == {i \in DOMAIN nodes : nodes[i] = junction} IN
    IF occ = {} THEN <<>>
    ELSE LET first == CHOOSE i \in occ : \A k \in occ : i <= k IN
         IF first + 1 \in DOMAIN nodes THEN <<nodes[first + 1]>>
         ELSE IF first - 1 \in DOMAIN nodes THEN <<nodes[first - 1]>>
         ELSE <<>>

RECURSIVE ExpectedNeighbors(_, _)
ExpectedNeighbors(junction, order) ==
    IF order = <<>> THEN <<>>
    ELSE NeighborOfFirstOccurrence(way_nodes[Head(order)], junction)
            \o ExpectedNeighbors(junction, Tail(order))

WaysThrough(junction) == {w \in DOMAIN way_nodes : junction \in Range(way_nodes[w])}

\* C5: every way containing the junction contributes the node after the first
\* occurrence of the junction in its node list, else the node before it, else
\* nothing (single-node way); ways not containing the junction contribute nothing.
C5_NeighborSelection ==
    /\ ret.op = "neighbors" =>
          \E order \in Orders(WaysThrough(ret.arg)) :
              ret.val = ExpectedNeighbors(ret.arg, order)
    /\ ret.op = "neighbors_with_tags" =>
          \E order \in Orders(WaysThrough(ret.arg)) :
              [i \in DOMAIN ret.val |-> ret.val[i].neighbor] = ExpectedNeighbors(ret.arg, order)

\* a way visits the junction twice with different successors, and one ends in it
C5_Witness ==
    /\ ret.op = "neighbors"
    /\ \E w \in DOMAIN way_nodes :
          /\ Len(way_nodes[w]) = 3
          /\ way_nodes[w][1] = ret.arg /\ way_nodes[w][3] = ret.arg
          /\ way_nodes[w][2] # ret.arg
    /\ \E w \in DOMAIN way_nodes :
          /\ Len(way_nodes[w]) = 2
          /\ way_nodes[w][2] = ret.arg /\ way_nodes[w][1] # ret.arg
    /\ \E w \in DOMAIN way_nodes : way_nodes[w] = <<ret.arg>>
    /\ Len(ret.val) = 2


(***************************************************************************)
(* Properties of calculate_junction_angles (SpecAngles).                   *)
(***************************************************************************)

\* the whole number of degrees nearest to d units, the larger one on a tie
NearestDegree(d) ==
    CHOOSE k \in 0..361 :
        \/ 2 * Abs(k * BearingUnits - d) < BearingUnits
        \/ 2 * Abs(k * BearingUnits - d) = BearingUnits /\ k * BearingUnits > d

\* the number of points whose bearing, folded by a full turn when negative, is v
FoldedCount(v) ==
    Cardinality({i \in DOMAIN ang_in :
        (IF ang_in[i] = NegTiny THEN 360 * BearingUnits
         ELSE IF ang_in[i] < 0 THEN ang_in[i] + 360 * BearingUnits
         ELSE ang_in[i]) = v})

\* C9: with exactly three points the bearings come back sorted ascending, each in
\* [0, 360), and the angles are the rounded consecutive differences
\* b1-b0, b2-b1, 360-b2+b0; equal bearings give an angle of 0 that is returned.
C9_AnglesFromSortedBearings ==
    (ang_called /\ Len(ang_in) = 3) =>
        /\ ang_out # None
        /\ LET b == ang_out[1].bearings
               a == ang_out[1].angles
           IN /\ Len(b) = 3 /\ Len(a) = 3
              /\ b[1] <= b[2] /\ b[2] <= b[3]
              /\ \A i \in 1..3 : 0 <= b[i] /\ b[i] < 360 * BearingUnits
              /\ \A i \in 1..3 :
                    Cardinality({j \in 1..3 : b[j] = b[i]}) = FoldedCount(b[i])
              /\ a[1] = NearestDegree(b[2] - b[1])
              /\ a[2] = NearestDegree(b[3] - b[2])
              /\ a[3] = NearestDegree(360 * BearingUnits - b[3] + b[1])
              /\ (b[1] = b[2] => a[1] = 0)
              /\ (b[2] = b[3] => a[2] = 0)

\* C9 without the upper end of the bearing range: everything else the claim says
C9_UpTo360Inclusive ==
    (ang_called /\ Len(ang_in) = 3) =>
        /\ ang_out # None
        /\ LET b == ang_out[1].bearings
               a == ang_out[1].angles
           IN /\ Len(b) = 3 /\ Len(a) = 3
              /\ b[1] <= b[2] /\ b[2] <= b[3]
              /\ \A i \in 1..3 : 0 <= b[i] /\ b[i] <= 360 * BearingUnits
              /\ \A i \in 1..3 :
                    Cardinality({j \in 1..3 : b[j] = b[i]}) = FoldedCount(b[i])
              /\ a[1] = NearestDegree(b[2] - b[1])
              /\ a[2] = NearestDegree(b[3] - b[2])
              /\ a[3] = NearestDegree(360 * BearingUnits - b[3] + b[1])
              /\ (b[1] = b[2] => a[1] = 0)
              /\ (b[2] = b[3] => a[2] = 0)

\* C10: the three rounded angles sum to a value in [358, 362], each lies in
\* [0, 360], and a point list not of length 3 yields None.
C10_AngleSumAndArity ==
    ang_called =>
        IF Len(ang_in) = 3
        THEN /\ ang_out # None
             /\ LET a == ang_out[1].angles IN
                  /\ a[1] + a[2] + a[3] \in 358..362
                  /\ \A i \in 1..3 : 0 <= a[i] /\ a[i] <= 360
        ELSE ang_out = None

\* a result whose rounded angles do not sum to 360
C10_Witness ==
    /\ ang_called /\ ang_out # None
    /\ ang_out[1].angles[1] + ang_out[1].angles[2] + ang_out[1].angles[3] # 360

\* a list of two or of four points was answered with None
C10_WitnessNone == ang_called /\ ang_out = None /\ Len(ang_in) \in {2, 4}

(***************************************************************************)
(* Properties of parse_pbf (SpecPipeline).                                 *)
(***************************************************************************)
Features == {junctions_for_insert[i] : i \in DOMAIN junctions_for_insert}

FeatureNodes == {f.osm_node_id : f \in Features}

MinAngle(f) == Min3(f.angle_1, f.angle_2, f.angle_3)

FeatureTags(f) ==
    <<[bridge |-> f.way_1_bridge, tunnel |-> f.way_1_tunnel],
      [bridge |-> f.way_2_bridge, tunnel |-> f.way_2_tunnel],
      [bridge |-> f.way_3_bridge, tunnel |-> f.way_3_tunnel]>>

\* the ways through junction that select a neighbor, and the ids they select
SelectingWays(junction) ==
    {w \in WaysThrough(junction) : NeighborOfFirstOccurrence(way_nodes[w], junction) # <<>>}

SelectedIds(junction) ==
    {NeighborOfFirstOccurrence(way_nodes[w], junction)[1] : w \in SelectingWays(junction)}

InsideInclusive(b, pos) ==
    /\ b.min_lat <= pos[1] /\ pos[1] <= b.max_lat
    /\ b.min_lon <= pos[2] /\ pos[2] <= b.max_lon

FileHolds(n) == n \in DOMAIN file_nodes /\ file_nodes[n]

\* the bearing in [0, 360] from pos to node n
BearingTo(pos, n) == calculate_bearing(haversine_bearing(pos, NodePosition(n)))

\* C2: a way is in the index exactly if it has a highway tag with a value of the
\* documented list; a way without the tag or with another value is in none of
\* the three maps, and a file of such ways only gives no candidate and no feature.
C2_HighwayAdmission ==
    /\ DOMAIN way_nodes \subseteq DOMAIN highway_ok
    /\ \A w \in DOMAIN highway_ok :
          /\ highway_ok[w] <=> w \in DOMAIN way_nodes
          /\ ~highway_ok[w] =>
                /\ w \notin DOMAIN way_tags
                /\ \A n \in DOMAIN node_to_ways : w \notin node_to_ways[n]
    /\ (pc # "pass1" /\ \A w \in DOMAIN highway_ok : ~highway_ok[w]) =>
          pc = "done" /\ candidates = <<>> /\ junctions_for_insert = <<>>

\* a finished run over a file with an admitted and a refused way
C2_Witness ==
    /\ pc = "done"
    /\ DOMAIN highway_ok = FileWayIds
    /\ \E w \in FileWayIds : highway_ok[w] /\ w \in DOMAIN way_nodes
    /\ \E w \in FileWayIds : ~highway_ok[w] /\ w \notin DOMAIN way_nodes

\* a finished run over three refused ways, all through node 1
C2_WitnessNoneAdmitted ==
    /\ pc = "done"
    /\ DOMAIN highway_ok = FileWayIds
    /\ \A w \in FileWayIds : ~highway_ok[w]
    /\ node_to_ways = EmptyMap

\* C3 as stated: every feature has 3 <= min(angle_1, angle_2, angle_3) < 60.
C3_MinAngleFrom3Below60 ==
    \A f \in Features : 3 <= MinAngle(f) /\ MinAngle(f) < 60

\* C3 amended: every feature has 0 <= min(angle_1, angle_2, angle_3) < 60, and
\* a junction is a feature exactly if its assembly was not cut short; there is
\* no lower limit of 3.
C3_MinAngleBelow60 ==
    /\ \A f \in Features : 0 <= MinAngle(f) /\ MinAngle(f) < 60
    /\ \A i \in DOMAIN trace :
          trace[i].outcome = "pushed" <=> trace[i].node_id \in FeatureNodes

\* a feature with a minimum angle below 3, returned
C3_Witness ==
    /\ pc = "done"
    /\ \E f \in Features : MinAngle(f) < 3

\* a junction whose neighbors all resolved and that was refused for its angles
C3_WitnessRefused ==
    /\ pc = "done"
    /\ \E i \in DOMAIN trace : trace[i].outcome = "t_junction"

\* a feature with a minimum angle of 3 or more
C3_WitnessSharp ==
    /\ pc = "done"
    /\ \E f \in Features : MinAngle(f) >= 3

AssemblyAccounted ==
    /\ \A i \in DOMAIN trace :
          /\ trace[i].node_id = y_junctions[i].node_id
          /\ trace[i].outcome = "pushed" <=> trace[i].node_id \in FeatureNodes
    /\ FeatureNodes \subseteq {trace[i].node_id : i \in DOMAIN trace}
    /\ pc = "done" => Len(trace) = Len(y_junctions)

\* C6 as stated: a feature has three selected neighbors, all with coordinates
\* and pairwise distinct; a junction with fewer than three selected neighbors
\* or an unresolved one is skipped and the run goes on.
C6_ThreeDistinctResolvedNeighbors ==
    /\ AssemblyAccounted
    /\ \A i \in DOMAIN trace :
          LET j == trace[i].node_id IN
          /\ trace[i].outcome = "pushed" =>
                /\ Cardinality(SelectingWays(j)) = 3
                /\ SelectedIds(j) \subseteq DOMAIN neighbor_coords
                /\ Cardinality(SelectedIds(j)) = 3
          /\ Cardinality(SelectingWays(j)) < 3 => trace[i].outcome = "neighbor_count"
          /\ (Cardinality(SelectingWays(j)) = 3
                /\ ~(SelectedIds(j) \subseteq DOMAIN neighbor_coords))
                => trace[i].outcome = "neighbor_coords"

\* C6 amended: a feature has three selected neighbors, all with coordinates (two
\* or all three of them may be the same node); a junction with fewer than three
\* selected neighbors or an unresolved one is skipped and the run goes on.
C6_ThreeResolvedNeighbors ==
    /\ AssemblyAccounted
    /\ \A i \in DOMAIN trace :
          LET j == trace[i].node_id IN
          /\ trace[i].outcome = "pushed" =>
                /\ Cardinality(SelectingWays(j)) = 3
                /\ SelectedIds(j) \subseteq DOMAIN neighbor_coords
          /\ Cardinality(SelectingWays(j)) < 3 => trace[i].outcome = "neighbor_count"
          /\ (Cardinality(SelectingWays(j)) = 3
                /\ ~(SelectedIds(j) \subseteq DOMAIN neighbor_coords))
                => trace[i].outcome = "neighbor_coords"

\* a run that returned after skipping a junction one of whose three neighbors
\* the file does not hold
C6_Witness ==
    /\ pc = "done"
    /\ \E i \in DOMAIN trace :
          /\ trace[i].outcome = "neighbor_coords"
          /\ Cardinality(SelectingWays(trace[i].node_id)) = 3
          /\ \E n \in SelectedIds(trace[i].node_id) : ~FileHolds(n)

\* a run that returned after skipping a junction with a way that selects no neighbor
C6_WitnessNeighborCount ==
    /\ pc = "done"
    /\ \E i \in DOMAIN trace :
          /\ trace[i].outcome = "neighbor_count"
          /\ \E w \in WaysThrough(trace[i].node_id) : Len(way_nodes[w]) = 1

\* a feature two of whose ways select the same neighbor
C6_WitnessSharedNeighbor ==
    /\ pc = "done"
    /\ \E f \in Features : Cardinality(SelectedIds(f.osm_node_id)) = 2

\* a feature with three different neighbors
C6_WitnessDistinct ==
    /\ pc = "done"
    /\ \E f \in Features : Cardinality(SelectedIds(f.osm_node_id)) = 3

\* C7: after pass 2 a candidate is kept exactly if the file holds its node and
\* min_lon <= lon <= max_lon and min_lat <= lat <= max_lat; every feature is
\* such a candidate.
C7_BBoxInclusive ==
    /\ pc \in {"pass3", "assemble", "done"} =>
          \A i \in DOMAIN candidates :
              LET n == candidates[i].node_id IN
              (\E k \in DOMAIN y_junctions : y_junctions[k].node_id = n)
                  <=> (FileHolds(n) /\ InsideInclusive(bbox, NodePosition(n)))
    /\ \A f \in Features :
          /\ FileHolds(f.osm_node_id)
          /\ <<f.lat, f.lon>> = NodePosition(f.osm_node_id)
          /\ InsideInclusive(bbox, <<f.lat, f.lon>>)

\* a feature whose node lies on an edge of the bbox
C7_Witness ==
    /\ pc = "done"
    /\ \E f \in Features :
          \/ f.lat \in {bbox.min_lat, bbox.max_lat}
          \/ f.lon \in {bbox.min_lon, bbox.max_lon}

C7_WitnessMinLat == pc = "done" /\ \E f \in Features : f.lat = bbox.min_lat
C7_WitnessMaxLat == pc = "done" /\ \E f \in Features : f.lat = bbox.max_lat
C7_WitnessMinLon == pc = "done" /\ \E f \in Features : f.lon = bbox.min_lon
C7_WitnessMaxLon == pc = "done" /\ \E f \in Features : f.lon = bbox.max_lon

\* a candidate the file holds outside the bbox, and a candidate the file lacks
C7_WitnessOutside ==
    /\ pc = "done"
    /\ \E i \in DOMAIN candidates :
          /\ FileHolds(candidates[i].node_id)
          /\ ~InsideInclusive(bbox, NodePosition(candidates[i].node_id))

C7_WitnessAbsent ==
    /\ pc = "done"
    /\ \E i \in DOMAIN candidates :
          /\ candidates[i].node_id \in DOMAIN file_nodes
          /\ ~file_nodes[candidates[i].node_id]

\* C8: after pass 3 neighbor_coords holds the coordinate of exactly the nodes of
\* the file that are a neighbor of a kept candidate, inside the bbox or not; a
\* junction whose three neighbors the file holds is not skipped for want of a
\* coordinate, and the bearings of a feature are those to its neighbors.
C8_NeighborsNotFiltered ==
    /\ pc \in {"assemble", "done"} =>
          /\ all_neighbor_ids =
                UNION {SelectedIds(y_junctions[k].node_id) : k \in DOMAIN y_junctions}
          /\ DOMAIN neighbor_coords = {n \in all_neighbor_ids : FileHolds(n)}
          /\ \A n \in DOMAIN neighbor_coords : neighbor_coords[n] = NodePosition(n)
    /\ \A i \in DOMAIN trace :
          LET j == trace[i].node_id IN
          (Cardinality(SelectingWays(j)) = 3 /\ \A n \in SelectedIds(j) : FileHolds(n))
              => trace[i].outcome \in {"pushed", "t_junction"}
    /\ \A f \in Features :
          {f.bearings[k] : k \in 1..3}
              = {BearingTo(<<f.lat, f.lon>>, n) : n \in SelectedIds(f.osm_node_id)}

\* a feature one of whose neighbors lies outside the bbox
C8_Witness ==
    /\ pc = "done"
    /\ \E f \in Features : \E n \in SelectedIds(f.osm_node_id) :
          ~InsideInclusive(bbox, NodePosition(n))

(***************************************************************************)
(* Properties of add_way (SpecIndex).                                      *)
(***************************************************************************)
\* C11: for every node key n of node_to_ways and every way id w in
\* node_to_ways[n], w is a key of way_nodes and n occurs in way_nodes[w].
C11_IndexConsistent ==
    \A n \in DOMAIN node_to_ways : \A w \in node_to_ways[n] :
        w \in DOMAIN way_nodes /\ n \in Range(way_nodes[w])

\* no way id was handed to add_way with two different node lists
NoWayIdReused == \A c, d \in calls : c.id = d.id => c.nodes = d.nodes

\* the same without calls that reuse a way id with another node list
C11_ConsistentWithoutReuse == NoWayIdReused => C11_IndexConsistent

\* a way id reused with another node list, the index still consistent
C11_WitnessReuse ==
    /\ ~NoWayIdReused
    /\ node_to_ways # EmptyMap
    /\ C11_IndexConsistent

\* C12: an add_way call that repeats the call before it with the same arguments
\* leaves node_to_ways, way_nodes and way_tags as they were, and with them the
\* connection counts and the candidates.
C12_AddWayIdempotent ==
    [][(last_add # None /\ last_add' # None /\ last_add'[1].times > 1) =>
          /\ node_to_ways' = node_to_ways
          /\ way_nodes' = way_nodes
          /\ way_tags' = way_tags
          /\ \A n \in IndexNodes :
                get_connection_count(node_to_ways', n) = get_connection_count(node_to_ways, n)
          /\ find_y_junction_candidates(node_to_ways')
                = find_y_junction_candidates(node_to_ways)]_vars

\* a call with a flag set made twice in a row, a node being a candidate
C12_Witness ==
    /\ last_add # None
    /\ last_add[1].times = 2
    /\ last_add[1].nodes # <<>>
    /\ last_add[1].bridge
    /\ find_y_junction_candidates(node_to_ways) # {<<>>}

(***************************************************************************)
(* Properties of the elevation fields (SpecPipeline).                      *)
(***************************************************************************)
\* the feature pushed for the i-th junction handled
FeatureAt(i) == CHOOSE f \in Features : f.osm_node_id = trace[i].node_id

BlockPresent(f) ==
    /\ f.neighbor_elevations # None /\ f.elevation_diffs # None
    /\ f.min_angle_index # None
    /\ f.min_elevation_diff # None /\ f.max_elevation_diff # None

BlockAbsent(f) ==
    /\ f.neighbor_elevations = None /\ f.elevation_diffs = None
    /\ f.min_angle_index = None
    /\ f.min_elevation_diff = None /\ f.max_elevation_diff = None

\* C13: the five fields of the elevation block of a feature are all present or
\* all absent; all present exactly if a DEM directory was given and the DEM had
\* the elevation of the junction and of its three neighbors; otherwise the node
\* elevation is present exactly if a directory was given and the DEM had it.
C13_ElevationBlockAllOrNothing ==
    \A i \in DOMAIN trace :
        trace[i].outcome = "pushed" =>
            LET f == FeatureAt(i)
                asked == trace[i].lookups
                junction_found == asked # None /\ asked[1].junction
                all_found == junction_found /\ asked[1].neighbors
            IN /\ BlockPresent(f) \/ BlockAbsent(f)
               /\ BlockPresent(f) <=> (elevation_dir /\ all_found)
               /\ f.elevation # None <=> (elevation_dir /\ junction_found)
               /\ ~elevation_dir => asked = None

\* a feature with the node elevation and no elevation block
C13_Witness ==
    /\ pc = "done"
    /\ elevation_dir
    /\ \E f \in Features : f.elevation # None /\ BlockAbsent(f)

\* a feature with the whole block; one with nothing though a directory was
\* given; one of a run without directory
C13_WitnessBlock == pc = "done" /\ \E f \in Features : BlockPresent(f)
C13_WitnessNothing ==
    pc = "done" /\ elevation_dir /\ \E f \in Features : f.elevation = None /\ BlockAbsent(f)
C13_WitnessNoDirectory == pc = "done" /\ ~elevation_dir /\ Features # {}

(***************************************************************************)
(* SpecElevationDiffs: one call of calculate_elevation_diffs followed by   *)
(* calculate_min_max_diffs, as get_elevation_data makes them, on any four  *)
(* f64 elevations.                                                         *)
(***************************************************************************)
MaxElevStep == 1

FiniteElevations == {100 + 5 * k : k \in (-MaxElevStep)..MaxElevStep}

\* a DEM record is the text of any f64, so NaN and the infinities are elevations too
ElevationInputs == FiniteElevations \cup {NaN, PosInf, NegInf}

InitElevationDiffs ==
    /\ NewIndex
    /\ NoRun
    /\ NoBackfill
    /\ NoAngleCall
    /\ NoParseCall
    /\ NoLoggedAdd
    /\ NoProvider
    /\ NoInsertCall
    /\ NoStore
    /\ NoUpdateCall
    /\ fn_in \in [base : ElevationInputs, neighbors : [1..3 -> ElevationInputs]]
    /\ fn_out = None

ElevationDiffs ==
    /\ fn_out = None
    /\ fn_out' = LET elevation_diffs == calculate_elevation_diffs(fn_in.base, fn_in.neighbors)
                     min_max == calculate_min_max_diffs(elevation_diffs)
                 IN  Some([elevation_diffs |-> elevation_diffs,
                           min_elevation_diff |-> min_max[1],
                           max_elevation_diff |-> min_max[2]])
    /\ UNCHANGED <<index_vars, query_vars, angle_vars, pipeline_vars, last_add, fn_in,
                   provider_vars, inserter_vars, store_vars, update_vars, run_vars, backfill_vars>>

NextElevationDiffs == ElevationDiffs

SpecElevationDiffs == InitElevationDiffs /\ [][NextElevationDiffs]_vars

\* C14: whenever the elevation block is computed, elevation_diffs[i] is the absolute
\* difference of the node elevation and neighbor i's elevation, min_elevation_diff is
\* the minimum and max_elevation_diff the maximum of the three, hence
\* 0 <= min <= max and both are members of elevation_diffs.
C14_DiffsMinMax ==
    fn_out # None =>
        LET out == fn_out[1]
            diffs == out.elevation_diffs
            min == out.min_elevation_diff
            max == out.max_elevation_diff
        IN  /\ \A i \in 1..3 :
                    diffs[i] = f64_abs(f64_sub(fn_in.base, fn_in.neighbors[i]))
            /\ \A i \in 1..3 : f64_le(min, diffs[i]) /\ f64_le(diffs[i], max)
            /\ f64_le(0, min)
            /\ f64_le(min, max)
            /\ \E i \in 1..3 : f64_eq(min, diffs[i])
            /\ \E i \in 1..3 : f64_eq(max, diffs[i])

\* the same holds of every call none of whose differences is NaN; on finite elevations
\* the differences are the absolute differences of the numbers
C14_DiffsMinMaxWithoutNaN ==
    fn_out # None =>
        LET out == fn_out[1]
            diffs == out.elevation_diffs
            min == out.min_elevation_diff
            max == out.max_elevation_diff
        IN  /\ \A i \in 1..3 :
                    (is_finite(fn_in.base) /\ is_finite(fn_in.neighbors[i]))
                        => diffs[i] = Abs(fn_in.base - fn_in.neighbors[i])
            /\ (\A i \in 1..3 : ~is_nan(diffs[i])) =>
                    /\ \A i \in 1..3 : min <= diffs[i] /\ diffs[i] <= max
                    /\ 0 <= min
                    /\ min <= max
                    /\ min \in Range(diffs)
                    /\ max \in Range(diffs)

\* three NaN differences: the minimum returned is +inf and the maximum -inf
C14_WitnessAllNaN ==
    /\ fn_out # None
    /\ is_nan(fn_in.base)
    /\ fn_out[1].min_elevation_diff = PosInf
    /\ fn_out[1].max_elevation_diff = NegInf

\* base 100 and neighbors 95, 105, 100 give 5, 5, 0 with minimum 0 and maximum 5
C14_WitnessExample ==
    /\ fn_in = [base |-> 100, neighbors |-> <<95, 105, 100>>]
    /\ fn_out = Some([elevation_diffs |-> <<5, 5, 0>>,
                       min_elevation_diff |-> 0, max_elevation_diff |-> 5])

(***************************************************************************)
(* SpecMinAngleIndex: one call of calculate_min_angle_index on any three   *)
(* i16 angles.                                                             *)
(***************************************************************************)
MaxAngleStep == 6

AngleInputs == {30 * k : k \in (-1)..MaxAngleStep}

InitMinAngleIndex ==
    /\ NewIndex
    /\ NoRun
    /\ NoBackfill
    /\ NoAngleCall
    /\ NoParseCall
    /\ NoLoggedAdd
    /\ NoProvider
    /\ NoInsertCall
    /\ NoStore
    /\ NoUpdateCall
    /\ fn_in \in [1..3 -> AngleInputs]
    /\ fn_out = None

MinAngleIndex ==
    /\ fn_out = None
    /\ fn_out' = Some(calculate_min_angle_index(fn_in))
    /\ UNCHANGED <<index_vars, query_vars, angle_vars, pipeline_vars, last_add, fn_in,
                   provider_vars, inserter_vars, store_vars, update_vars, run_vars, backfill_vars>>

NextMinAngleIndex == MinAngleIndex

SpecMinAngleIndex == InitMinAngleIndex /\ [][NextMinAngleIndex]_vars

\* C15: calculate_min_angle_index returns a 1-based index k in {1, 2, 3} such that
\* angles[k-1] (0-based) is the minimum of the three angles, and among equal minima
\* the smallest k.
C15_FirstMinimum ==
    fn_out # None =>
        LET k == fn_out[1]
        IN  /\ k \in {1, 2, 3}
            /\ \A j \in 1..3 : fn_in[k] <= fn_in[j]
            /\ \A j \in 1..3 : fn_in[j] = fn_in[k] => k <= j

\* [120, 120, 120] gives 1
C15_Witness == fn_in = <<120, 120, 120>> /\ fn_out = Some(1)

\* a tie of the last two angles gives 2
C15_WitnessTie == fn_in = <<150, 30, 30>> /\ fn_out = Some(2)

(***************************************************************************)
(* SpecMeshCode: one call of calculate_mesh_code.  A latitude is given in  *)
(* units of 1/(120 * MeshFine) degree and a longitude in units of          *)
(* 1/(80 * MeshFine) degree east of 100, so that lat * 120.0 and           *)
(* (lon - 100.0) * 80.0 are the unit counts divided by MeshFine.           *)
(***************************************************************************)
MaxMesh == 81
MeshFine == 2

MeshUnits == (-(MaxMesh * MeshFine))..(MaxMesh * MeshFine)

\* `(x).floor() as i32` of x = units / MeshFine
floor_as_i32(units) == units \div MeshFine

\* i32 `/` and `%`: the quotient is rounded toward zero and the remainder has the
\* sign of the dividend
i32_div(a, b) == IF a >= 0 THEN a \div b ELSE -((-a) \div b)
i32_rem(a, b) == a - b * i32_div(a, b)

Digits == <<"0", "1", "2", "3", "4", "5", "6", "7", "8", "9">>

\* `{}` of an unsigned integer: its decimal digits
RECURSIVE fmt_unsigned(_)
fmt_unsigned(n) ==
    IF n < 10 THEN <<Digits[n + 1]>>
    ELSE fmt_unsigned(n \div 10) \o <<Digits[(n % 10) + 1]>>

\* `{}` of an i32
fmt_i32(n) == IF n < 0 THEN <<"-">> \o fmt_unsigned(-n) ELSE fmt_unsigned(n)

\* format!("{}{}", a, b)
fmt_pair(a, b) == fmt_i32(a) \o fmt_i32(b)

\* format!("{}-{}-{}", first_mesh, second_mesh, third_mesh)
fmt_mesh(first_mesh, second_mesh, third_mesh) ==
    first_mesh \o <<"-">> \o second_mesh \o <<"-">> \o third_mesh

\* calculate_mesh_code
calculate_mesh_code(lat, lon) ==
    LET lat_mesh == floor_as_i32(lat)
        lon_mesh == floor_as_i32(lon)
        first_mesh == fmt_pair(i32_div(lat_mesh, 80), i32_div(lon_mesh, 80))
        second_mesh == fmt_pair(i32_rem(i32_div(lat_mesh, 10), 8),
                                i32_rem(i32_div(lon_mesh, 10), 8))
        third_mesh == fmt_pair(i32_rem(lat_mesh, 10), i32_rem(lon_mesh, 10))
    IN  fmt_mesh(first_mesh, second_mesh, third_mesh)

InitMeshCode ==
    /\ NewIndex
    /\ NoRun
    /\ NoBackfill
    /\ NoAngleCall
    /\ NoParseCall
    /\ NoLoggedAdd
    /\ NoProvider
    /\ NoInsertCall
    /\ NoStore
    /\ NoUpdateCall
    /\ fn_in \in [lat : MeshUnits, lon : MeshUnits]
    /\ fn_out = None

MeshCode ==
    /\ fn_out = None
    /\ fn_out' = Some(calculate_mesh_code(fn_in.lat, fn_in.lon))
    /\ UNCHANGED <<index_vars, query_vars, angle_vars, pipeline_vars, last_add, fn_in,
                   provider_vars, inserter_vars, store_vars, update_vars, run_vars, backfill_vars>>

NextMeshCode == MeshCode

SpecMeshCode == InitMeshCode /\ [][NextMeshCode]_vars

\* floor(lat * 120), floor((lon - 100) * 80)
LatMesh == CHOOSE m \in (-MaxMesh)..MaxMesh :
               m * MeshFine <= fn_in.lat /\ fn_in.lat < (m + 1) * MeshFine
LonMesh == CHOOSE m \in (-MaxMesh)..MaxMesh :
               m * MeshFine <= fn_in.lon /\ fn_in.lon < (m + 1) * MeshFine

\* the floor division and its non-negative remainder
FloorDiv(a, b) == CHOOSE q \in (-(Abs(a) + 1))..(Abs(a) + 1) : q * b <= a /\ a < (q + 1) * b
FloorMod(a, b) == a - b * FloorDiv(a, b)

\* the division rounding toward zero and its remainder
TruncDiv(a, b) ==
    CHOOSE q \in (-Abs(a))..Abs(a) :
        /\ Abs(a - q * b) < b
        /\ a >= 0 => a - q * b >= 0
        /\ a <= 0 => a - q * b <= 0
TruncMod(a, b) == a - b * TruncDiv(a, b)

\* "PP-QQ-RR" from its six numbers
MeshString(p1, p2, q1, q2, r1, r2) ==
    fmt_i32(p1) \o fmt_i32(p2) \o <<"-">> \o fmt_i32(q1) \o fmt_i32(q2) \o <<"-">>
        \o fmt_i32(r1) \o fmt_i32(r2)

FloorMeshCode ==
    MeshString(FloorDiv(LatMesh, 80), FloorDiv(LonMesh, 80),
               FloorMod(FloorDiv(LatMesh, 10), 8), FloorMod(FloorDiv(LonMesh, 10), 8),
               FloorMod(LatMesh, 10), FloorMod(LonMesh, 10))

TruncMeshCode ==
    MeshString(TruncDiv(LatMesh, 80), TruncDiv(LonMesh, 80),
               TruncMod(TruncDiv(LatMesh, 10), 8), TruncMod(TruncDiv(LonMesh, 10), 8),
               TruncMod(LatMesh, 10), TruncMod(LonMesh, 10))

\* C19: calculate_mesh_code(lat, lon) is "PP-QQ-RR" built from
\* latMesh = floor(lat * 120) and lonMesh = floor((lon - 100) * 80) with
\* PP = (latMesh div 80)(lonMesh div 80), QQ = ((latMesh div 10) mod 8)((lonMesh div 10)
\* mod 8), RR = (latMesh mod 10)(lonMesh mod 10), for every point, div and mod being
\* the floor division and the non-negative remainder also where lon < 100 or lat < 0.
C19_MeshCodeFloorDivision == fn_out # None => fn_out[1] = FloorMeshCode

\* what calculate_mesh_code returns: "PP-QQ-RR" built from the same latMesh and lonMesh
\* with div rounding toward zero and mod taking the sign of its dividend, which is
\* the string of the floor division for the points with lat >= 0 and lon >= 100
C19_MeshCodeTruncatedDivision ==
    fn_out # None =>
        /\ fn_out[1] = TruncMeshCode
        /\ (fn_in.lat >= 0 /\ fn_in.lon >= 0) => fn_out[1] = FloorMeshCode

\* a point west of 100 whose code is not the one of the floor division
C19_Witness ==
    /\ fn_out # None
    /\ fn_in.lat >= 0
    /\ fn_in.lon < 0
    /\ fn_out[1] # FloorMeshCode

\* a point with lat >= 0 and lon >= 100 beyond the first 80 mesh rows and columns
C19_WitnessRegion ==
    /\ fn_out = Some(<<"1", "1", "-", "0", "0", "-", "0", "1">>)
    /\ fn_in.lat \div MeshFine = 80
    /\ fn_in.lon \div MeshFine = 81

(***************************************************************************)
(* SpecTile: one call of GsiTile::get_elevation on a tile as               *)
(* parse_xml_file builds it: W = maxX + 1 >= 1 columns, H = maxY + 1 >= 1  *)
(* rows, any number of records.  Coordinates are whole numbers, a fraction *)
(* is kept as numerator and denominator, and 0/0 is the NaN of f64.        *)
(***************************************************************************)
MaxGrid == 3
MaxSpan == 2

\* struct GsiTile
GsiTile(lower_corner, upper_corner, grid_width, grid_height, elevations) ==
    [lower_corner |-> lower_corner, upper_corner |-> upper_corner,
     grid_width |-> grid_width, grid_height |-> grid_height, elevations |-> elevations]

\* GsiTile::contains
contains(tile, lat, lon) ==
    /\ lat >= tile.lower_corner[1]
    /\ lat <= tile.upper_corner[1]
    /\ lon >= tile.lower_corner[2]
    /\ lon <= tile.upper_corner[2]

\* f64::round of num / den >= 0: to the nearest whole number, a half away from zero
f64_round(num, den) == (2 * num + den) \div (2 * den)

\* f64::clamp
f64_clamp(x, min, max) == IF x < min THEN min ELSE IF x > max THEN max ELSE x

\* `(frac * cells as f64).round().clamp(0.0, cells as f64) as usize` of
\* frac = num / den; a NaN stays NaN through round and clamp and `as usize` makes it 0
grid_coordinate(num, den, cells) ==
    IF den = 0 THEN 0 ELSE f64_clamp(f64_round(num * cells, den), 0, cells)

\* Vec::get(index).copied()
vec_get(elevations, index) ==
    IF index < Len(elevations) THEN Some(elevations[index + 1]) ELSE None

\* the rows taken for columns
grid_index_by_height(tile, x, y) == y * tile.grid_height + x

\* `y * self.grid_width + x`
grid_index(tile, x, y) == y * tile.grid_width + x

\* GsiTile::get_elevation
tile_get_elevation(tile, lat, lon) ==
    IF ~contains(tile, lat, lon) THEN None
    ELSE LET lat_den == tile.upper_corner[1] - tile.lower_corner[1]
             lon_den == tile.upper_corner[2] - tile.lower_corner[2]
             lat_num == lat - tile.lower_corner[1]
             lon_num == lon - tile.lower_corner[2]
             x == grid_coordinate(lon_num, lon_den, tile.grid_width - 1)
             y == grid_coordinate(lat_den - lat_num, lat_den, tile.grid_height - 1)
         IN  vec_get(tile.elevations, grid_index(tile, x, y))

\* the records of a tile, each one a different elevation
TileRecords(n) == [i \in 1..n |-> 100 + i]

TileInputs ==
    {GsiTile(<<0, 0>>, <<lat, lon>>, w, h, TileRecords(n)) :
        lat \in 0..MaxSpan, lon \in 0..MaxSpan, w \in 1..MaxGrid, h \in 1..MaxGrid,
        n \in 0..(MaxGrid * MaxGrid)}

InitTile ==
    /\ NewIndex
    /\ NoRun
    /\ NoBackfill
    /\ NoAngleCall
    /\ NoParseCall
    /\ NoLoggedAdd
    /\ NoProvider
    /\ NoInsertCall
    /\ NoStore
    /\ NoUpdateCall
    /\ fn_in \in [tile : TileInputs, lat : (-1)..(MaxSpan + 1), lon : (-1)..(MaxSpan + 1)]
    /\ fn_out = None

TileGetElevation ==
    /\ fn_out = None
    /\ fn_out' = Some(tile_get_elevation(fn_in.tile, fn_in.lat, fn_in.lon))
    /\ UNCHANGED <<index_vars, query_vars, angle_vars, pipeline_vars, last_add, fn_in,
                   provider_vars, inserter_vars, store_vars, update_vars, run_vars, backfill_vars>>

NextTile == TileGetElevation

SpecTile == InitTile /\ [][NextTile]_vars

\* the whole numbers of 0..cells nearest to frac * cells, frac = num / den in [0, 1];
\* every one of them when the fraction is 0/0
NearestCells(num, den, cells) ==
    {c \in 0..cells : den # 0 => 2 * Abs(c * den - num * cells) <= den}

\* C18: for a tile of grid size W x H holding n <= W*H elevation records, a query for
\* a point inside the tile computes x clamped to [0, W-1] and y clamped to [0, H-1]
\* and returns elevations[y*W + x] if y*W + x < n and "no data" otherwise; it never
\* reads outside the array.
C18_TileLookupInBounds ==
    LET tile == fn_in.tile
        W == tile.grid_width
        H == tile.grid_height
        n == Len(tile.elevations)
    IN  (fn_out # None /\ n <= W * H /\ contains(tile, fn_in.lat, fn_in.lon)) =>
            \E x \in NearestCells(fn_in.lon - tile.lower_corner[2],
                                   tile.upper_corner[2] - tile.lower_corner[2], W - 1),
               y \in NearestCells(tile.upper_corner[1] - fn_in.lat,
                                   tile.upper_corner[1] - tile.lower_corner[1], H - 1) :
                /\ y * W + x < n => fn_out[1] = Some(tile.elevations[y * W + x + 1])
                /\ y * W + x >= n => fn_out[1] = None

\* a partial tile of 3 x 2 cells answers in its first row and has no data in its second
C18_Witness ==
    /\ fn_out = Some(None)
    /\ fn_in.tile.grid_width = 3
    /\ fn_in.tile.grid_height = 2
    /\ Len(fn_in.tile.elevations) = 4
    /\ contains(fn_in.tile, fn_in.lat, fn_in.lon)
    /\ fn_in.lat = 0
    /\ fn_in.lon = fn_in.tile.upper_corner[2]
    /\ fn_in.tile.upper_corner[1] > 0

\* the south-east corner of a full 3 x 2 tile is its last record
C18_WitnessLastRecord ==
    /\ fn_in.tile.grid_width = 3
    /\ fn_in.tile.grid_height = 2
    /\ Len(fn_in.tile.elevations) = 6
    /\ fn_in.tile.upper_corner = <<2, 2>>
    /\ fn_in.lat = 0
    /\ fn_in.lon = 2
    /\ fn_out = Some(Some(106))

\* a tile whose corners coincide answers with its first record
C18_WitnessDegenerate ==
    /\ fn_in.tile.upper_corner = <<0, 0>>
    /\ fn_in.tile.grid_width = 3
    /\ Len(fn_in.tile.elevations) = 4
    /\ fn_out = Some(Some(101))

(***************************************************************************)
(* SpecProvider: an ElevationProvider after new() and a sequence of        *)
(* get_elevation calls on it.  The points lie in the first mesh row, in    *)
(* the units of calculate_mesh_code; the files do not change.              *)
(***************************************************************************)
ProviderMeshes == 2
MaxLookups == 3

\* Result<Option<f64>>
Ok(v) == [ok |-> TRUE, value |-> v]
Err == [ok |-> FALSE, value |-> None]

ProviderPoints == {<<lat, lon>> : lat \in 0..1, lon \in 0..(ProviderMeshes * MeshFine - 1)}

ProviderMeshCodes == {calculate_mesh_code(p[1], p[2]) : p \in ProviderPoints}

\* the tile of mesh column b with n records: 2 x 2 cells over the mesh
MeshTile(b, n) ==
    GsiTile(<<0, b * MeshFine>>, <<MeshFine, (b + 1) * MeshFine>>, 2, 2,
            [i \in 1..n |-> 100 * (b + 1) + i])

\* Result<GsiTile> of parse_xml_file: an error, or any tile the file describes
\* (a full one, a partial one, one of another place than the file name says)
ParseResults ==
    {[ok |-> FALSE]} \cup
    {[ok |-> TRUE, tile |-> MeshTile(b, n)] : b \in 0..ProviderMeshes, n \in {2, 4}}

\* ElevationProvider::parse_xml_file
parse_xml_file(files, xml_path) == files[xml_path]

\* the cached tile answers with its first record
cached_elevation_first(tile, lat, lon) == vec_get(tile.elevations, 0)

\* `Ok(tile.get_elevation(lat, lon))` of a cached tile
cached_elevation(tile, lat, lon) == tile_get_elevation(tile, lat, lon)

\* the tiles parsed so far dropped when a file fails to parse
parse_failure_clears(tiles) == [result |-> Ok(None), cache |-> EmptyMap]

\* the parse error handed to the caller, as `?` does
parse_failure_propagated(tiles) == [result |-> Err, cache |-> tiles]

\* `Err(e) => { tracing::warn!(..); return Ok(None); }`
parse_failure(tiles) == [result |-> Ok(None), cache |-> tiles]

\* ElevationProvider::get_elevation: the value returned and the cache it leaves
provider_get_elevation(tiles, paths, files, lat, lon) ==
    LET mesh_code == calculate_mesh_code(lat, lon)
    IN  IF mesh_code \in DOMAIN tiles
        THEN [result |-> Ok(cached_elevation(tiles[mesh_code], lat, lon)), cache |-> tiles]
        ELSE IF mesh_code \in DOMAIN paths
        THEN LET parsed == parse_xml_file(files, paths[mesh_code])
             IN  IF parsed.ok
                 THEN [result |-> Ok(tile_get_elevation(parsed.tile, lat, lon)),
                       cache |-> MapInsert(tiles, mesh_code, parsed.tile)]
                 ELSE parse_failure(tiles)
        ELSE [result |-> Ok(None), cache |-> tiles]

\* ElevationProvider::cache_stats, files_loaded
files_loaded(tiles) == Cardinality(DOMAIN tiles)

\* the path new() indexes under a mesh code
PathOf(mesh_code) == <<"FG-GML-">> \o mesh_code

\* ElevationProvider::new: some of the mesh codes have a file, the cache is empty
InitProvider ==
    /\ NewIndex
    /\ NoRun
    /\ NoBackfill
    /\ NoAngleCall
    /\ NoParseCall
    /\ NoLoggedAdd
    /\ NoPureCall
    /\ NoInsertCall
    /\ NoStore
    /\ NoUpdateCall
    /\ cache = EmptyMap
    /\ \E indexed \in SUBSET ProviderMeshCodes :
            /\ mesh_to_file = [m \in indexed |-> PathOf(m)]
            /\ dem_files \in [{PathOf(m) : m \in indexed} -> ParseResults]
    /\ lookups = <<>>

GetElevation(lat, lon) ==
    /\ Len(lookups) < MaxLookups
    /\ LET got == provider_get_elevation(cache, mesh_to_file, dem_files, lat, lon)
       IN  /\ cache' = got.cache
           /\ lookups' = Append(lookups,
                                 [lat |-> lat, lon |-> lon,
                                  hit |-> calculate_mesh_code(lat, lon) \in DOMAIN cache,
                                  cached |-> <<files_loaded(cache), files_loaded(got.cache)>>,
                                  result |-> got.result])
    /\ UNCHANGED <<index_vars, query_vars, angle_vars, pipeline_vars, last_add, pure_vars,
                   mesh_to_file, dem_files, inserter_vars, store_vars, update_vars, run_vars, backfill_vars>>

NextProvider == \E p \in ProviderPoints : GetElevation(p[1], p[2])

SpecProvider == InitProvider /\ [][NextProvider]_vars

\* the file indexed for the mesh code of the point exists and parses
TileParses(lat, lon) ==
    LET mesh_code == calculate_mesh_code(lat, lon)
    IN  mesh_code \in DOMAIN mesh_to_file /\ dem_files[mesh_to_file[mesh_code]].ok

SamePoint(a, b) == a.lat = b.lat /\ a.lon = b.lon

\* C16: for a fixed ElevationProvider and a point whose tile parses successfully,
\* get_elevation(lat, lon) returns the same value on every call in any sequence of
\* calls (the cached path and the first-parse path agree), and a repeated query for a
\* point in an already cached tile does not change the number of cached tiles.
C16_LookupDeterministic ==
    /\ \A i, j \in 1..Len(lookups) :
            (SamePoint(lookups[i], lookups[j]) /\ TileParses(lookups[i].lat, lookups[i].lon))
                => lookups[i].result = lookups[j].result
    /\ \A i \in 1..Len(lookups) :
            lookups[i].hit => lookups[i].cached[1] = lookups[i].cached[2]

\* a point answered with an elevation by the parse and again by the cache, a point of
\* another tile parsed in between
C16_Witness ==
    /\ Len(lookups) = 3
    /\ SamePoint(lookups[1], lookups[3])
    /\ ~lookups[1].hit
    /\ ~lookups[2].hit
    /\ lookups[3].hit
    /\ lookups[2].cached = <<1, 2>>
    /\ lookups[3].cached = <<2, 2>>
    /\ lookups[1].result.value # None
    /\ lookups[1].result # lookups[2].result
    /\ lookups[1].result.value # vec_get(cache[calculate_mesh_code(lookups[1].lat, lookups[1].lon)].elevations, 0)

MaxRows == 2001

BATCH_SIZE == 1000

\* a statement the database executed
Begin == [op |-> "begin", rows |-> <<>>]
Insert(rows) == [op |-> "insert", rows |-> rows]
Commit == [op |-> "commit", rows |-> <<>>]
Rollback == [op |-> "rollback", rows |-> <<>>]

\* one row more than the chunk size taken
chunk_end_over(start, size, len) == IF start + size + 1 < len THEN start + size + 1 ELSE len

\* where the chunk that begins after `start` elements ends
chunk_end(start, size, len) == IF start + size < len THEN start + size ELSE len

\* slice::chunks(size): the chunk that begins after `start` elements
chunk_at(list, size, start) == SubSeq(list, start + 1, chunk_end(start, size, Len(list)))

\* insert_batch: the statements it executes, one INSERT with the rows of the chunk in
\* the order of the chunk, none for an empty chunk
insert_batch(chunk) == IF chunk = <<>> THEN <<>> ELSE <<Insert(chunk)>>

\* a row of y_junctions: the import that wrote it, and whether its elevation
\* columns are filled
Row(written_by, elevation) == [written_by |-> written_by, elevation |-> elevation]

\* the table after an import of the first k features of the list, without elevation
StoredBefore(k) == [id \in 1..k |-> Row("earlier", FALSE)]

\* how much of the list an earlier import wrote: nothing, half of it, all of it
StoredCounts(n) == {0, n \div 2, n}

\* the row the table holds is overwritten
insert_on_conflict_do_update(table, rows) ==
    LET ids == Range(rows)
    IN  [id \in (DOMAIN table) \cup ids |->
            IF id \in ids THEN Row("this", FALSE) ELSE table[id]]

\* `INSERT INTO y_junctions .. VALUES .. ON CONFLICT (osm_node_id) DO NOTHING`:
\* a row whose osm_node_id the table holds is skipped
insert_on_conflict_do_nothing(table, rows) ==
    LET ids == Range(rows)
    IN  [id \in (DOMAIN table) \cup ids |->
            IF id \in DOMAIN table THEN table[id] ELSE Row("this", FALSE)]

\* the rows the chunks already executed wrote are kept
rolled_back_keeps(committed, in_transaction) == in_transaction

\* ROLLBACK, sent when a Transaction is dropped without commit: the table is the
\* committed one
rolled_back(committed, in_transaction) == committed

\* insert_junctions is entered
NewInsertCall ==
    /\ ins_pc = "start"
    /\ tx_store = None
    /\ inserted_count = 0
    /\ db_log = <<>>
    /\ ins_ret = None

\* an empty table and a list of any length
InitInsert ==
    /\ NewIndex
    /\ NoRun
    /\ NoBackfill
    /\ NoAngleCall
    /\ NoParseCall
    /\ NoLoggedAdd
    /\ NoPureCall
    /\ NoProvider
    /\ NoUpdateCall
    /\ NewInsertCall
    /\ \E n \in 0..MaxRows : junctions = [i \in 1..n |-> i]
    /\ store = EmptyMap

InsertIdle == <<index_vars, query_vars, angle_vars, pipeline_vars, last_add, pure_vars,
                provider_vars, junctions, update_vars, run_vars, backfill_vars>>

\* `if junctions.is_empty() { return Ok(()); }`
ReturnEmpty ==
    /\ ins_pc = "start"
    /\ junctions = <<>>
    /\ ins_pc' = "done"
    /\ ins_ret' = Some("Ok")
    /\ UNCHANGED <<InsertIdle, inserted_count, db_log, store_vars>>

\* the transaction begun for an empty list too
BeginTransaction_for_empty ==
    /\ ins_pc = "start"
    /\ db_log' = Append(db_log, Begin)
    /\ tx_store' = Some(store)
    /\ ins_pc' = "batches"
    /\ UNCHANGED <<InsertIdle, inserted_count, ins_ret, store>>

\* `pool.begin().await?`
BeginTransaction ==
    /\ ins_pc = "start"
    /\ junctions # <<>>
    /\ db_log' = Append(db_log, Begin)
    /\ tx_store' = Some(store)
    /\ ins_pc' = "batches"
    /\ UNCHANGED <<InsertIdle, inserted_count, ins_ret, store>>

BeginFails ==
    /\ ins_pc = "start"
    /\ junctions # <<>>
    /\ ins_pc' = "done"
    /\ ins_ret' = Some("Err")
    /\ UNCHANGED <<InsertIdle, inserted_count, db_log, store_vars>>

\* one turn of `for chunk in junctions.chunks(BATCH_SIZE)`
InsertBatch ==
    /\ ins_pc = "batches"
    /\ LET chunk == chunk_at(junctions, BATCH_SIZE, inserted_count)
       IN  /\ db_log' = db_log \o insert_batch(chunk)
           /\ tx_store' = Some(insert_on_conflict_do_nothing(tx_store[1], chunk))
           /\ inserted_count' = inserted_count + Len(chunk)
           /\ ins_pc' = IF inserted_count + Len(chunk) >= Len(junctions)
                         THEN "commit" ELSE "batches"
    /\ UNCHANGED <<InsertIdle, ins_ret, store>>

\* `insert_batch(&mut tx, chunk).await?` fails: the statement wrote nothing and the
\* transaction is rolled back when tx is dropped
InsertBatchFails ==
    /\ ins_pc = "batches"
    /\ db_log' = Append(db_log, Rollback)
    /\ store' = rolled_back(store, tx_store[1])
    /\ tx_store' = None
    /\ ins_pc' = "done"
    /\ ins_ret' = Some("Err")
    /\ UNCHANGED <<InsertIdle, inserted_count>>

\* `tx.commit().await?`
CommitTransaction ==
    /\ ins_pc = "commit"
    /\ db_log' = Append(db_log, Commit)
    /\ store' = tx_store[1]
    /\ tx_store' = None
    /\ ins_pc' = "done"
    /\ ins_ret' = Some("Ok")
    /\ UNCHANGED <<InsertIdle, inserted_count>>

\* the commit is refused
CommitFails ==
    /\ ins_pc = "commit"
    /\ db_log' = Append(db_log, Rollback)
    /\ store' = rolled_back(store, tx_store[1])
    /\ tx_store' = None
    /\ ins_pc' = "done"
    /\ ins_ret' = Some("Err")
    /\ UNCHANGED <<InsertIdle, inserted_count>>

\* the commit is made but its answer never arrives
CommitUnacknowledged ==
    /\ ins_pc = "commit"
    /\ db_log' = Append(db_log, Commit)
    /\ store' = tx_store[1]
    /\ tx_store' = None
    /\ ins_pc' = "done"
    /\ ins_ret' = Some("Err")
    /\ UNCHANGED <<InsertIdle, inserted_count>>

NextInsert ==
    \/ ReturnEmpty
    \/ BeginTransaction
    \/ BeginFails
    \/ InsertBatch
    \/ InsertBatchFails
    \/ CommitTransaction
    \/ CommitFails
    \/ CommitUnacknowledged

SpecInsert == InitInsert /\ [][NextInsert]_vars

\* the rows of the insert statements of a log, in statement order
RECURSIVE RowsWritten(_)
RowsWritten(log) ==
    IF log = <<>> THEN <<>>
    ELSE (IF Head(log).op = "insert" THEN Head(log).rows ELSE <<>>) \o RowsWritten(Tail(log))

Transactions == Cardinality({i \in 1..Len(db_log) : db_log[i].op = "begin"})

\* C20: insert_junctions writes the features inside exactly one transaction, as a
\* sequence of insert statements each carrying at most 1000 rows, whose rows
\* concatenated in statement order equal the input list in its original order; with
\* an empty input no transaction is opened and no statement is executed.
C20_OneTransactionChunksInOrder ==
    /\ junctions = <<>> => db_log = <<>>
    /\ Transactions <= 1
    /\ \A i \in 1..Len(db_log) :
            db_log[i].op = "insert" =>
                /\ db_log[1] = Begin
                /\ \A j \in 1..(i - 1) : db_log[j].op \in {"begin", "insert"}
                /\ Len(db_log[i].rows) >= 1
                /\ Len(db_log[i].rows) <= 1000
    /\ LET rows == RowsWritten(db_log)
       IN  /\ Len(rows) <= Len(junctions)
           /\ rows = SubSeq(junctions, 1, Len(rows))
           /\ ins_ret = Some("Ok") => rows = junctions
    /\ (ins_ret = Some("Ok") /\ junctions # <<>>) =>
            /\ Transactions = 1
            /\ db_log[1] = Begin
            /\ db_log[Len(db_log)] = Commit
            /\ \A i \in 2..(Len(db_log) - 1) : db_log[i].op = "insert"

\* 2001 features written as statements of 1000, 1000 and 1 rows and committed
C20_Witness ==
    /\ ins_ret = Some("Ok")
    /\ Len(junctions) = 2001
    /\ Len(db_log) = 5
    /\ Len(db_log[2].rows) = 1000
    /\ Len(db_log[3].rows) = 1000
    /\ db_log[4].rows = <<2001>>

\* an empty list returns Ok without a statement
C20_WitnessEmpty == junctions = <<>> /\ ins_ret = Some("Ok") /\ db_log = <<>>

\* a refused statement ends the call with the transaction rolled back
C20_WitnessRolledBack ==
    /\ ins_ret = Some("Err")
    /\ Len(db_log) = 3
    /\ db_log[2].op = "insert"
    /\ db_log[3] = Rollback

(***************************************************************************)
(* SpecSink: one call of insert_junctions or of bulk_update_elevations on  *)
(* the table.  An update is written as the id of the row it names, and the *)
(* id of a row as its osm_node_id.                                         *)
(***************************************************************************)
BATCH_SIZE_bulk_update == 1000

Update(rows) == [op |-> "update", rows |-> rows]

\* the rows of the table an `UPDATE y_junctions SET .. FROM (VALUES ..) AS updates
\* WHERE y_junctions.id = updates.id` changes
rows_matched(table, chunk) == (DOMAIN table) \cap Range(chunk)

\* the table after the statement: the elevation columns of the matched rows are set
update_from_values(table, chunk) ==
    LET matched == rows_matched(table, chunk)
    IN  [id \in DOMAIN table |->
            IF id \in matched THEN Row(table[id].written_by, TRUE) ELSE table[id]]

\* result.rows_affected()
rows_affected(table, chunk) == Cardinality(rows_matched(table, chunk))

\* Result<usize, sqlx::Error>
UpdateOk(n) == [ok |-> TRUE, value |-> n]
UpdateErr == [ok |-> FALSE, value |-> 0]

\* the rows the table holds when the updates were collected from n of them: some were
\* deleted since, or all are there, or one more without update
StoredForUpdate(n) == {n \div 2, n, n + 1}

\* the lengths of a list around the chunk boundaries
ChunkSlack == 3
RowCounts ==
    {n \in 0..MaxRows : \/ n % BATCH_SIZE <= ChunkSlack
                         \/ n % BATCH_SIZE >= BATCH_SIZE - ChunkSlack}

\* bulk_update_elevations is entered
NewUpdateCall ==
    /\ upd_pc = "start"
    /\ tx_store = None
    /\ updated_chunks = 0
    /\ total_updated = 0
    /\ upd_ret = None

\* insert_junctions on a table that may hold rows of an earlier import
InitInsertStored ==
    /\ NewIndex
    /\ NoRun
    /\ NoBackfill
    /\ NoAngleCall
    /\ NoParseCall
    /\ NoLoggedAdd
    /\ NoPureCall
    /\ NoProvider
    /\ NoUpdateCall
    /\ NewInsertCall
    /\ \E n \in RowCounts :
            /\ junctions = [i \in 1..n |-> i]
            /\ \E k \in StoredCounts(n) : store = StoredBefore(k)

InitUpdate ==
    /\ NewIndex
    /\ NoRun
    /\ NoBackfill
    /\ NoAngleCall
    /\ NoParseCall
    /\ NoLoggedAdd
    /\ NoPureCall
    /\ NoProvider
    /\ NoInsertCall
    /\ NewUpdateCall
    /\ \E n \in RowCounts :
            /\ updates = [i \in 1..n |-> i]
            /\ \E k \in StoredForUpdate(n) : store = StoredBefore(k)

UpdateIdle == <<index_vars, query_vars, angle_vars, pipeline_vars, last_add, pure_vars,
                provider_vars, ins_pc, junctions, inserted_count, ins_ret, updates,
                run_vars, backfill_vars>>

\* `if updates.is_empty() { return Ok(0); }`
UpdateReturnEmpty ==
    /\ upd_pc = "start"
    /\ updates = <<>>
    /\ upd_pc' = "done"
    /\ upd_ret' = Some(UpdateOk(0))
    /\ UNCHANGED <<UpdateIdle, db_log, store_vars, updated_chunks, total_updated>>

\* `pool.begin().await?`
UpdateBegin ==
    /\ upd_pc = "start"
    /\ updates # <<>>
    /\ db_log' = Append(db_log, Begin)
    /\ tx_store' = Some(store)
    /\ upd_pc' = "batches"
    /\ UNCHANGED <<UpdateIdle, store, updated_chunks, total_updated, upd_ret>>

UpdateBeginFails ==
    /\ upd_pc = "start"
    /\ updates # <<>>
    /\ upd_pc' = "done"
    /\ upd_ret' = Some(UpdateErr)
    /\ UNCHANGED <<UpdateIdle, db_log, store_vars, updated_chunks, total_updated>>

\* one turn of `for chunk in updates.chunks(BATCH_SIZE)`
UpdateBatch ==
    /\ upd_pc = "batches"
    /\ LET start == updated_chunks * BATCH_SIZE_bulk_update
           chunk == chunk_at(updates, BATCH_SIZE_bulk_update, start)
       IN  /\ db_log' = Append(db_log, Update(chunk))
           /\ tx_store' = Some(update_from_values(tx_store[1], chunk))
           /\ total_updated' = total_updated + rows_affected(tx_store[1], chunk)
           /\ updated_chunks' = updated_chunks + 1
           /\ upd_pc' = IF start + Len(chunk) >= Len(updates) THEN "commit" ELSE "batches"
    /\ UNCHANGED <<UpdateIdle, store, upd_ret>>

\* `.execute(&mut *tx).await?` fails: the transaction is rolled back when tx is dropped
UpdateBatchFails ==
    /\ upd_pc = "batches"
    /\ db_log' = Append(db_log, Rollback)
    /\ store' = rolled_back(store, tx_store[1])
    /\ tx_store' = None
    /\ upd_pc' = "done"
    /\ upd_ret' = Some(UpdateErr)
    /\ UNCHANGED <<UpdateIdle, updated_chunks, total_updated>>

\* `tx.commit().await?; Ok(total_updated)`
UpdateCommit ==
    /\ upd_pc = "commit"
    /\ db_log' = Append(db_log, Commit)
    /\ store' = tx_store[1]
    /\ tx_store' = None
    /\ upd_pc' = "done"
    /\ upd_ret' = Some(UpdateOk(total_updated))
    /\ UNCHANGED <<UpdateIdle, updated_chunks, total_updated>>

\* the commit is refused
UpdateCommitFails ==
    /\ upd_pc = "commit"
    /\ db_log' = Append(db_log, Rollback)
    /\ store' = rolled_back(store, tx_store[1])
    /\ tx_store' = None
    /\ upd_pc' = "done"
    /\ upd_ret' = Some(UpdateErr)
    /\ UNCHANGED <<UpdateIdle, updated_chunks, total_updated>>

\* the commit is made but its answer never arrives
UpdateCommitUnacknowledged ==
    /\ upd_pc = "commit"
    /\ db_log' = Append(db_log, Commit)
    /\ store' = tx_store[1]
    /\ tx_store' = None
    /\ upd_pc' = "done"
    /\ upd_ret' = Some(UpdateErr)
    /\ UNCHANGED <<UpdateIdle, updated_chunks, total_updated>>

NextUpdate ==
    \/ UpdateReturnEmpty
    \/ UpdateBegin
    \/ UpdateBeginFails
    \/ UpdateBatch
    \/ UpdateBatchFails
    \/ UpdateCommit
    \/ UpdateCommitFails
    \/ UpdateCommitUnacknowledged

SpecUpdate == InitUpdate /\ [][NextUpdate]_vars

InitSink == InitInsertStored \/ InitUpdate

NextSink == NextInsert \/ NextUpdate

SpecSink == InitSink /\ [][NextSink]_vars

\* the call has returned an error
SinkFailed == ins_ret = Some("Err") \/ upd_ret = Some(UpdateErr)

\* every chunk of the argument has been executed
AllChunksExecuted ==
    \/ ins_pc = "commit" /\ inserted_count = Len(junctions)
    \/ upd_pc = "commit" /\ updated_chunks * BATCH_SIZE_bulk_update >= Len(updates)

\* C21: both sink operations are all-or-nothing: if any chunk statement of
\* insert_junctions or of bulk_update_elevations fails, or the call is aborted before
\* commit, the operation returns an error and the table is left exactly as it was
\* before the call, including the effects of chunks that had already executed; the
\* changes become visible only after the commit following the last chunk.
C21_AllOrNothing ==
    [][/\ store' # store => (AllChunksExecuted /\ db_log' = Append(db_log, Commit))
       /\ db_log' = Append(db_log, Rollback) =>
              (SinkFailed' /\ store' = store /\ tx_store' = None)
       /\ (SinkFailed' /\ ~SinkFailed /\ ~AllChunksExecuted) => store' = store]_vars

\* 2001 features given to a table holding 1000 of them: two statements executed, the
\* third refused, and the table holds the 1000 rows it held
C21_Witness ==
    /\ ins_ret = Some("Err")
    /\ Len(junctions) = 2001
    /\ Len(db_log) = 4
    /\ db_log[2].op = "insert"
    /\ db_log[3].op = "insert"
    /\ db_log[4] = Rollback
    /\ store = StoredBefore(1000)

\* 2001 updates: two statements executed, the third refused, no row filled
C21_WitnessUpdate ==
    /\ upd_ret = Some(UpdateErr)
    /\ Len(updates) = 2001
    /\ Len(db_log) = 4
    /\ db_log[3].op = "update"
    /\ db_log[4] = Rollback
    /\ store = StoredBefore(2001)

\* the rows are there once the commit is made
C21_WitnessCommitted ==
    /\ ins_ret = Some("Ok")
    /\ Len(junctions) = 2001
    /\ DOMAIN store = 1..2001
    /\ store[1000].written_by = "earlier"
    /\ store[1001].written_by = "this"

\* every row of table a is a row of table b, unchanged
RowsKept(a, b) == \A id \in DOMAIN a : id \in DOMAIN b /\ b[id] = a[id]

\* C22: conflict-skip idempotence: inserting a feature whose osm_node_id already exists
\* in the table leaves the existing row untouched and adds no row, so re-running the
\* import on the same inputs against the populated table yields zero new rows, an
\* unchanged total row count and no error.
C22_ConflictSkip ==
    [][/\ (ins_pc = "batches" /\ tx_store' # None) =>
              /\ RowsKept(tx_store[1], tx_store'[1])
              /\ DOMAIN tx_store'[1] \subseteq (DOMAIN tx_store[1]) \cup Range(junctions)
       /\ (ins_pc = "commit" /\ ins_ret' = Some("Ok")) =>
              /\ RowsKept(store, store')
              /\ DOMAIN store' = (DOMAIN store) \cup Range(junctions)
              /\ Range(junctions) \subseteq DOMAIN store =>
                     /\ store' = store
                     /\ Cardinality(DOMAIN store') = Cardinality(DOMAIN store)]_vars

\* the 2001 features of the earlier import inserted again: Ok, three statements, and
\* the table holds the 2001 rows of the earlier import
C22_Witness ==
    /\ ins_ret = Some("Ok")
    /\ Len(junctions) = 2001
    /\ Len(db_log) = 5
    /\ db_log[5] = Commit
    /\ store = StoredBefore(2001)

\* features of which the table holds half: the other half is added
C22_WitnessHalf ==
    /\ ins_ret = Some("Ok")
    /\ Len(junctions) = 2000
    /\ DOMAIN store = 1..2000
    /\ \A id \in 1..1000 : store[id] = Row("earlier", FALSE)
    /\ \A id \in 1001..2000 : store[id] = Row("this", FALSE)

(***************************************************************************)
(* The result of parse_pbf as a function of the file and the bbox           *)
(* (SpecPipeline).                                                         *)
(***************************************************************************)
\* the way set of node n iterated in ascending order of the way ids
AscendingOrder(S) ==
    CHOOSE o \in Orders(S) : \A a, b \in DOMAIN o : a < b => o[a] < o[b]

\* the coordinates of the node elements of the file
FileCoords == [n \in {m \in DOMAIN file_nodes : file_nodes[m]} |-> NodePosition(n)]

\* the nodes of exactly three distinct admitted ways of the file
ThreeWayNodes == {n \in DOMAIN node_to_ways : Cardinality(WaysThrough(n)) = 3}

\* The osm_node_ids the file and the bbox determine: the nodes of three ways the
\* file holds inside the bbox whose neighbors the file holds and whose smallest
\* angle is below the limit, the way set read in ascending order, no DEM asked
ExpectedNodeIds ==
    {n \in {m \in ThreeWayNodes : FileHolds(m) /\ InsideInclusive(bbox, NodePosition(m))} :
        assemble([node_id |-> n, lat |-> NodePosition(n)[1], lon |-> NodePosition(n)[2]],
                 AscendingOrder(WaysThrough(n)), way_nodes, way_tags, FileCoords,
                 FALSE, {}).outcome = "pushed"}

\* C23: the osm_node_ids parse_pbf returns are those the file and the bbox
\* determine, whatever the iteration order of candidates and way sets and
\* whatever the DEM answers, so two runs on the same input return the same set;
\* and no osm_node_id occurs twice in the output.
C23_OutputSetDetermined ==
    /\ pc = "done" => FeatureNodes = ExpectedNodeIds
    /\ \A i, j \in DOMAIN junctions_for_insert :
          junctions_for_insert[i].osm_node_id = junctions_for_insert[j].osm_node_id => i = j

\* a run that returned two features, the higher node id first, one of them
\* assembled with its way set not in ascending order
C23_Witness ==
    /\ pc = "done"
    /\ Len(junctions_for_insert) = 2
    /\ junctions_for_insert[1].osm_node_id > junctions_for_insert[2].osm_node_id
    /\ \E f \in Features :
          FeatureTags(f) # sorted_way_tags(<<f.lat, f.lon>>,
                               neighbors_with_tags_in(way_nodes, way_tags, f.osm_node_id,
                                   AscendingOrder(WaysThrough(f.osm_node_id))),
                               filter_map_coords(
                                   neighboring_nodes_in(way_nodes, f.osm_node_id,
                                       AscendingOrder(WaysThrough(f.osm_node_id))),
                                   FileCoords))

\* a run that returned its features in ascending order of the node ids
C23_WitnessAscending ==
    /\ pc = "done"
    /\ Len(junctions_for_insert) = 2
    /\ junctions_for_insert[1].osm_node_id < junctions_for_insert[2].osm_node_id

(***************************************************************************)
(* SpecMain: one run of the import command (bin/import.rs main), which     *)
(* parses --bbox, connects and imports: parse_pbf, then insert_junctions.  *)
(***************************************************************************)
\* str::split(sep): the parts of s[i..], `part` the characters of the part begun
RECURSIVE split_from(_, _, _, _)
split_from(s, sep, i, part) ==
    IF i > Len(s) THEN <<part>>
    ELSE IF s[i] = sep THEN <<part>> \o split_from(s, sep, i + 1, <<>>)
    ELSE split_from(s, sep, i + 1, Append(part, s[i]))

split(s, sep) == split_from(s, sep, 1, <<>>)

is_digit(c) == \E d \in DOMAIN Digits : Digits[d] = c

digit_value(c) == (CHOOSE d \in DOMAIN Digits : Digits[d] = c) - 1

RECURSIVE decimal_value(_, _, _)
decimal_value(s, i, acc) ==
    IF i > Len(s) THEN acc ELSE decimal_value(s, i + 1, acc * 10 + digit_value(s[i]))

\* str::parse::<f64>() on a text of signs, digits and letters: an optional sign,
\* then digits, "inf" or "NaN"; nothing is trimmed and the empty text is an error
parse_f64(s) ==
    LET signed == s # <<>> /\ s[1] \in {"-", "+"}
        body == IF signed THEN Tail(s) ELSE s
        negative == signed /\ s[1] = "-"
    IN IF body = <<>> THEN None
       ELSE IF body = <<"N", "a", "N">> THEN Some(NaN)
       ELSE IF body = <<"i", "n", "f">> THEN Some(IF negative THEN NegInf ELSE PosInf)
       ELSE IF \A i \in DOMAIN body : is_digit(body[i])
            THEN Some(IF negative THEN -decimal_value(body, 1, 0)
                                  ELSE decimal_value(body, 1, 0))
       ELSE None

\* the text of parts joined by commas
RECURSIVE join(_)
join(parts) ==
    IF Len(parts) = 1 THEN parts[1] ELSE parts[1] \o <<",">> \o join(Tail(parts))

\* The --bbox arguments of the runs: boxes around the nodes of the file, a box
\* of no width, one of no height, one with its corners exchanged, two beyond
\* the range of longitude or latitude, and texts that are not four numbers
MainBBoxArgs ==
    {join([i \in 1..4 |-> fmt_i32(b[i])]) :
        b \in {<<1, 1, 3, 3>>, <<2, 1, 2, 3>>, <<1, 2, 3, 2>>, <<3, 3, 1, 1>>,
               <<1, 1, 200, 3>>, <<1, -100, 3, 3>>}}
    \cup {join(<<fmt_i32(1), fmt_i32(1), fmt_i32(3)>>),
          join(<<fmt_i32(1), <<"x">>, fmt_i32(3), fmt_i32(3)>>),
          join(<<fmt_i32(1), fmt_i32(1), fmt_i32(3), fmt_i32(3), fmt_i32(4)>>)}

InitMain ==
    /\ NewIndex
    /\ NoAngleCall
    /\ NoLoggedAdd
    /\ NoPureCall
    /\ NoProvider
    /\ NoParseCall
    /\ NoInsertCall
    /\ NoStore
    /\ NoUpdateCall
    /\ NoBackfill
    /\ run_pc = "main"
    /\ bbox_arg \in MainBBoxArgs
    /\ args_bbox = None
    /\ run_ret = None

RunIdle == <<index_vars, query_vars, angle_vars, last_add, pure_vars, provider_vars,
             update_vars, backfill_vars, bbox_arg>>

\* main from `args.bbox.split(',')` to the fourth `parse()?`
MainParseBBox ==
    /\ run_pc = "main"
    /\ LET bbox_parts == split(bbox_arg, ",")
           numbers == [i \in DOMAIN bbox_parts |-> parse_f64(bbox_parts[i])]
       IN IF Len(bbox_parts) # 4 \/ \E i \in 1..4 : numbers[i] = None
          THEN run_pc' = "exit" /\ run_ret' = Some("Err") /\ args_bbox' = None
          ELSE /\ run_pc' = "connect"
               /\ run_ret' = None
               /\ args_bbox' = Some([min_lon |-> numbers[1][1], min_lat |-> numbers[2][1],
                                     max_lon |-> numbers[3][1], max_lat |-> numbers[4][1]])
    /\ UNCHANGED <<RunIdle, pipeline_vars, inserter_vars, store_vars>>

\* the pool is connected and the import is called: parse_pbf begins its first pass
MainConnect ==
    /\ run_pc = "connect"
    /\ run_pc' = "import"
    /\ pc' = "pass1"
    /\ UNCHANGED <<RunIdle, args_bbox, run_ret, idx, bbox, elevation_dir, file_nodes,
                   highway_ok, candidates, node_coords, y_junctions, all_neighbor_ids,
                   neighbor_coords, junctions_for_insert, trace, inserter_vars, store_vars>>

\* `.connect(&database_url).await?` fails
MainConnectFails ==
    /\ run_pc = "connect"
    /\ run_pc' = "exit"
    /\ run_ret' = Some("Err")
    /\ UNCHANGED <<RunIdle, args_bbox, pipeline_vars, inserter_vars, store_vars>>

\* the failure of a pass not passed on to the caller
ReadFails_unreported ==
    /\ run_pc = "import"
    /\ pc \in {"pass1", "pass2", "pass3"}
    /\ pc' = "failed"
    /\ UNCHANGED <<RunIdle, run_pc, run_ret, args_bbox, idx, bbox, elevation_dir, file_nodes,
                   highway_ok, candidates, node_coords, y_junctions, all_neighbor_ids,
                   neighbor_coords, junctions_for_insert, trace, inserter_vars, store_vars>>

\* `File::open(input_path)?` or `reader.for_each(..)?` of a pass fails: parse_pbf
\* returns the error, and so do the import and main
ReadFails ==
    /\ run_pc = "import"
    /\ pc \in {"pass1", "pass2", "pass3"}
    /\ pc' = "failed"
    /\ run_pc' = "exit"
    /\ run_ret' = Some("Err")
    /\ UNCHANGED <<RunIdle, args_bbox, idx, bbox, elevation_dir, file_nodes,
                   highway_ok, candidates, node_coords, y_junctions, all_neighbor_ids,
                   neighbor_coords, junctions_for_insert, trace, inserter_vars, store_vars>>

\* the osm_node_ids of the features handed to insert_junctions
osm_node_ids(features) == [i \in DOMAIN features |-> features[i].osm_node_id]

\* `inserter::insert_junctions(pool, junctions)` is called with the Ok value of parse_pbf
ImportInsert ==
    /\ run_pc = "import"
    /\ pc = "done"
    /\ run_pc' = "insert"
    /\ ins_pc' = "start"
    /\ junctions' = osm_node_ids(junctions_for_insert)
    /\ UNCHANGED <<RunIdle, args_bbox, run_ret, pipeline_vars, inserted_count, db_log,
                   ins_ret, store_vars>>

\* insert_junctions has returned: `.await?`, `Ok(count)`, and main returns
ImportReturn ==
    /\ run_pc = "insert"
    /\ ins_pc = "done"
    /\ run_pc' = "exit"
    /\ run_ret' = ins_ret
    /\ UNCHANGED <<RunIdle, args_bbox, pipeline_vars, inserter_vars, store_vars>>

NextMain ==
    \/ MainParseBBox
    \/ MainConnect
    \/ MainConnectFails
    \/ \E highway \in {None, Some("residential")}, refs \in PipelineWayRefs :
          Pass1Way(highway, refs, FALSE, FALSE)
    \/ FindYJunctionCandidates(args_bbox[1].min_lon, args_bbox[1].min_lat,
                               args_bbox[1].max_lon, args_bbox[1].max_lat)
    \/ \E present \in BOOLEAN : Pass2Node(present)
    \/ CollectNeighborIds(FALSE)
    \/ \E present \in BOOLEAN : Pass3Node(present)
    \/ \E order \in WayOrders : Assemble(order, {})
    \/ ReadFails
    \/ ImportInsert
    \/ ReturnEmpty
    \/ BeginTransaction
    \/ BeginFails
    \/ InsertBatch
    \/ InsertBatchFails
    \/ CommitTransaction
    \/ CommitFails
    \/ CommitUnacknowledged
    \/ ImportReturn

SpecMain == InitMain /\ [][NextMain]_vars

\* no node of the index has a connection count of three
NoThreeWayNode == \A n \in DOMAIN node_to_ways : Cardinality(node_to_ways[n]) # 3

\* pass 1 of parse_pbf has been read to its end
Pass1Complete == pc \in {"pass2", "pass3", "assemble", "done"}

\* C24: when no node has three ways after pass 1, parse_pbf returns the empty
\* list at once (no node element is read, passes 2 and 3 leave no trace), the
\* sink gets the empty list and sends nothing to the database, and the run
\* ends without error.
C24_NoCandidatesNoWrite ==
    (Pass1Complete /\ NoThreeWayNode) =>
        /\ pc = "done"
        /\ candidates = <<>> /\ junctions_for_insert = <<>>
        /\ file_nodes = EmptyMap /\ node_coords = EmptyMap /\ y_junctions = <<>>
        /\ all_neighbor_ids = {} /\ neighbor_coords = EmptyMap /\ trace = <<>>
        /\ junctions = <<>>
        /\ db_log = <<>> /\ tx_store = None /\ store = EmptyMap
        /\ ins_ret \in {None, Some("Ok")}
        /\ run_pc \in {"import", "insert", "exit"}
        /\ run_pc = "exit" => run_ret = Some("Ok") /\ ins_ret = Some("Ok")

\* a finished run over a file with two admitted ways: their nodes have one or
\* two ways, none has three
C24_Witness ==
    /\ run_pc = "exit"
    /\ run_ret = Some("Ok")
    /\ NoThreeWayNode
    /\ Cardinality(DOMAIN way_nodes) = 2
    /\ \E n \in DOMAIN node_to_ways : Cardinality(node_to_ways[n]) = 2
    /\ pc = "done"
    /\ ins_pc = "done"
    /\ db_log = <<>>

(***************************************************************************)
(* SpecBackfill: one call of import_elevation_data on a table of stored    *)
(* junctions.  What the DEM answers at a junction and at the three points  *)
(* derived from its bearings is an input, drawn when the junction is       *)
(* handled.                                                                *)
(***************************************************************************)
MaxStoredRows == 3

\* the tables of the runs: rows of an earlier import, with or without elevation
StoredTables ==
    UNION {[1..k -> {Row("earlier", FALSE), Row("earlier", TRUE)}] : k \in 0..MaxStoredRows}

\* the points import_elevation_data asks the DEM about for one junction: 0 is
\* the junction, 1..3 the points derived from bearings[0..2]
DemPoints == 0..3

\* the junction elevation is enough for an update
all_neighbors_present_skipped(has) == has[0]

\* `let Some(junction_elev) = junction_elevation else { continue }` and
\* `if let [Some(n1), Some(n2), Some(n3)] = ..`
all_neighbors_present(has) == has[0] /\ has[1] /\ has[2] /\ has[3]

InitBackfill ==
    /\ NewIndex
    /\ NoAngleCall
    /\ NoLoggedAdd
    /\ NoPureCall
    /\ NoProvider
    /\ NoParseCall
    /\ NoInsertCall
    /\ NoUpdateCall
    /\ NoRun
    /\ store \in StoredTables
    /\ tx_store = None
    /\ bf_pc = "start"
    /\ found = <<>>
    /\ bf_idx = 1
    /\ bf_trace = <<>>
    /\ bf_ret = None

BackfillIdle == <<index_vars, query_vars, angle_vars, pipeline_vars, last_add, pure_vars,
                  provider_vars, run_vars, ins_pc, junctions, inserted_count, ins_ret>>

\* `ElevationProvider::new(elevation_dir)?` finds XML files
BackfillNewProvider ==
    /\ bf_pc = "start"
    /\ bf_pc' = "find_all"
    /\ UNCHANGED <<BackfillIdle, found, bf_idx, bf_trace, bf_ret, update_vars, db_log,
                   store_vars>>

\* `ElevationProvider::new(elevation_dir)?` finds no XML file: the error is returned
BackfillProviderFails ==
    /\ bf_pc = "start"
    /\ bf_pc' = "done"
    /\ bf_ret' = Some(UpdateErr)
    /\ UNCHANGED <<BackfillIdle, found, bf_idx, bf_trace, update_vars, db_log, store_vars>>

\* bulk_update_elevations(pool, &elevation_updates) is called
call_bulk_update(n) == IF n = 0 THEN "start" ELSE "idle"

\* `find_all(pool).await?`: every row of the table, in the order the database
\* returns them (the SELECT has no ORDER BY).  With no row the loop is empty
BackfillFindAll ==
    /\ bf_pc = "find_all"
    /\ \E rows \in Orders(DOMAIN store) :
          /\ found' = rows
          /\ bf_pc' = IF rows = <<>> THEN "update" ELSE "scan"
          /\ upd_pc' = call_bulk_update(Len(rows))
    /\ UNCHANGED <<BackfillIdle, bf_idx, bf_trace, bf_ret, updates, updated_chunks,
                   total_updated, upd_ret, db_log, store_vars>>

\* `find_all(pool).await?` fails
BackfillFindAllFails ==
    /\ bf_pc = "find_all"
    /\ bf_pc' = "done"
    /\ bf_ret' = Some(UpdateErr)
    /\ UNCHANGED <<BackfillIdle, found, bf_idx, bf_trace, update_vars, db_log, store_vars>>

\* One turn of `for (idx, junction) in junctions.iter().enumerate()`; has[p] is
\* whether get_elevation yields an elevation at point p.  After the last turn
\* bulk_update_elevations is called
BackfillScan(has) ==
    /\ bf_pc = "scan"
    /\ bf_idx <= Len(found)
    /\ has[0] \/ \A p \in 1..3 : ~has[p]
    /\ updates' = IF all_neighbors_present(has) THEN Append(updates, found[bf_idx])
                  ELSE updates
    /\ bf_trace' = Append(bf_trace, [id |-> found[bf_idx], junction |-> has[0],
                                    neighbors |-> has[1] /\ has[2] /\ has[3]])
    /\ bf_idx' = bf_idx + 1
    /\ bf_pc' = IF bf_idx = Len(found) THEN "update" ELSE "scan"
    /\ upd_pc' = call_bulk_update(Len(found) - bf_idx)
    /\ UNCHANGED <<BackfillIdle, found, bf_ret, updated_chunks, total_updated, upd_ret,
                   db_log, store_vars>>

\* bulk_update_elevations has returned: `.await?`, `Ok(updated_count)`
BackfillReturn ==
    /\ bf_pc = "update"
    /\ upd_pc = "done"
    /\ bf_pc' = "done"
    /\ bf_ret' = upd_ret
    /\ UNCHANGED <<BackfillIdle, found, bf_idx, bf_trace, update_vars, db_log, store_vars>>

NextBackfill ==
    \/ BackfillNewProvider
    \/ BackfillProviderFails
    \/ BackfillFindAll
    \/ BackfillFindAllFails
    \/ \E has \in [DemPoints -> BOOLEAN] : BackfillScan(has)
    \/ UpdateReturnEmpty
    \/ UpdateBegin
    \/ UpdateBeginFails
    \/ UpdateBatch
    \/ UpdateBatchFails
    \/ UpdateCommit
    \/ UpdateCommitFails
    \/ UpdateCommitUnacknowledged
    \/ BackfillReturn

SpecBackfill == InitBackfill /\ [][NextBackfill]_vars

(***************************************************************************)
(* SpecImports: a run of the import command or a call of                   *)
(* import_elevation_data.                                                  *)
(***************************************************************************)
InitImports == InitMain \/ InitBackfill

NextImports == NextMain \/ NextBackfill

SpecImports == InitImports /\ [][NextImports]_vars

\* no statement was sent to the database and the table is as it was found
NoDatabaseWrite == db_log = <<>> /\ tx_store = None

C25_WitnessPass1 == pc = "failed" /\ candidates = <<>> /\ DOMAIN highway_ok = {1}
C25_WitnessPass2 == pc = "failed" /\ candidates # <<>> /\ y_junctions = <<>> /\ node_coords # EmptyMap

\* a back-fill that returned the error of ElevationProvider::new on a table of
\* three rows
C25_WitnessNoXml ==
    /\ bf_pc = "done"
    /\ bf_ret = Some(UpdateErr)
    /\ upd_pc = "idle"
    /\ Cardinality(DOMAIN store) = 3
    /\ NoDatabaseWrite

\* the text is four numbers separated by commas
FourNumbers(arg) ==
    /\ Len(split(arg, ",")) = 4
    /\ \A i \in 1..4 : parse_f64(split(arg, ",")[i]) # None

\* the number at place i of a text of four numbers
NumberAt(arg, i) == parse_f64(split(arg, ",")[i])[1]

\* the documented conditions on the four numbers min_lon, min_lat, max_lon, max_lat
DocumentedBBox(arg) ==
    /\ FourNumbers(arg)
    /\ NumberAt(arg, 1) < NumberAt(arg, 3)
    /\ NumberAt(arg, 2) < NumberAt(arg, 4)
    /\ -180 <= NumberAt(arg, 1) /\ NumberAt(arg, 3) <= 180
    /\ -90 <= NumberAt(arg, 2) /\ NumberAt(arg, 4) <= 90

\* the run ended with an error before parse_pbf was called: no element of the
\* file was read and no statement sent
RejectedBeforePipeline ==
    /\ run_pc \in {"main", "exit"}
    /\ run_pc = "exit" => run_ret = Some("Err")
    /\ pc = "idle"
    /\ highway_ok = EmptyMap /\ file_nodes = EmptyMap
    /\ NoDatabaseWrite /\ store = EmptyMap

\* C26 as stated: a --bbox that is not four numbers, has min_lon >= max_lon or
\* min_lat >= max_lat, or lies outside the WGS84 ranges ends the run with an
\* error before any element of the file is read or any row written.
C26_InvalidBBoxRejected == ~DocumentedBBox(bbox_arg) => RejectedBeforePipeline

\* what main does check: a --bbox that is not four numbers is rejected before
\* the pipeline starts
C26_UnparsedBBoxRejected == ~FourNumbers(bbox_arg) => RejectedBeforePipeline

\* a run with a --bbox of no width that committed a row
C26_WitnessRowWritten ==
    /\ ~DocumentedBBox(bbox_arg)
    /\ run_pc = "exit" /\ run_ret = Some("Ok")
    /\ store # EmptyMap

\* a run rejected for a --bbox of three parts, and one for a part that is no number
C26_WitnessThreeParts == run_pc = "exit" /\ Len(split(bbox_arg, ",")) = 3
C26_WitnessNoNumber ==
    /\ run_pc = "exit"
    /\ Len(split(bbox_arg, ",")) = 4
    /\ ~FourNumbers(bbox_arg)

(***************************************************************************)
(* SpecGetJunctions: one request GET /api/junctions (handlers.rs).         *)
(***************************************************************************)
\* f64 comparisons: false when an operand is NaN
f64_ge(a, b) == ~is_nan(a) /\ ~is_nan(b) /\ a >= b
f64_lt(a, b) == ~is_nan(a) /\ ~is_nan(b) /\ a < b
f64_gt(a, b) == ~is_nan(a) /\ ~is_nan(b) /\ a > b

\* AppError::BadRequest(msg) as into_response renders it, and the other answers
BadRequest(msg) == [status |-> 400, error |-> msg, queried |-> FALSE]
InternalError == [status |-> 500, error |-> "Database error", queried |-> TRUE]
FeatureCollection == [status |-> 200, error |-> "", queried |-> TRUE]

\* JunctionsQuery::parse_bbox with the range check made after the limits check
parse_bbox_limits_first(text) ==
    LET parts == split(text, ",")
        coords == [i \in DOMAIN parts |-> parse_f64(parts[i])]
    IN IF Len(parts) # 4
       THEN [ok |-> FALSE,
             value |-> BadRequest("bbox must be in format: min_lon,min_lat,max_lon,max_lat")]
       ELSE IF \E i \in 1..4 : coords[i] = None
       THEN [ok |-> FALSE, value |-> BadRequest("Invalid bbox coordinates")]
       ELSE LET min_lon == coords[1][1]
                min_lat == coords[2][1]
                max_lon == coords[3][1]
                max_lat == coords[4][1]
            IN IF \/ f64_lt(min_lon, -180) \/ f64_gt(max_lon, 180)
                  \/ f64_lt(min_lat, -90) \/ f64_gt(max_lat, 90)
               THEN [ok |-> FALSE, value |-> BadRequest("bbox out of valid range")]
               ELSE IF f64_ge(min_lon, max_lon) \/ f64_ge(min_lat, max_lat)
               THEN [ok |-> FALSE, value |-> BadRequest("Invalid bbox range")]
               ELSE [ok |-> TRUE, value |-> <<min_lon, min_lat, max_lon, max_lat>>]

\* JunctionsQuery::parse_bbox
parse_bbox(text) ==
    LET parts == split(text, ",")
        coords == [i \in DOMAIN parts |-> parse_f64(parts[i])]
    IN IF Len(parts) # 4
       THEN [ok |-> FALSE,
             value |-> BadRequest("bbox must be in format: min_lon,min_lat,max_lon,max_lat")]
       ELSE IF \E i \in 1..4 : coords[i] = None
       THEN [ok |-> FALSE, value |-> BadRequest("Invalid bbox coordinates")]
       ELSE LET min_lon == coords[1][1]
                min_lat == coords[2][1]
                max_lon == coords[3][1]
                max_lat == coords[4][1]
            IN IF f64_ge(min_lon, max_lon) \/ f64_ge(min_lat, max_lat)
               THEN [ok |-> FALSE, value |-> BadRequest("Invalid bbox range")]
               ELSE IF \/ f64_lt(min_lon, -180) \/ f64_gt(max_lon, 180)
                       \/ f64_lt(min_lat, -90) \/ f64_gt(max_lat, 90)
               THEN [ok |-> FALSE, value |-> BadRequest("bbox out of valid range")]
               ELSE [ok |-> TRUE, value |-> <<min_lon, min_lat, max_lon, max_lat>>]

AngleTypeNames == {"verysharp", "sharp", "skewed", "normal"}

\* JunctionsQuery::to_filter_params.  angle_type holds the names between the
\* commas of the parameter, trimmed
to_filter_params(angle_type, limit) ==
    IF limit # None /\ limit[1] <= 0
    THEN [ok |-> FALSE, value |-> BadRequest("limit must be a positive integer")]
    ELSE IF angle_type # None /\ \E i \in DOMAIN angle_type[1] : angle_type[1][i] \notin AngleTypeNames
    THEN [ok |-> FALSE, value |-> BadRequest("Invalid angle_type")]
    ELSE [ok |-> TRUE, value |-> [angle_type |-> angle_type, limit |-> limit]]

\* get_junctions; db_ok: whether find_by_bbox succeeds
get_junctions(query, db_ok) ==
    LET bbox_result == parse_bbox(query.bbox)
        filters == to_filter_params(query.angle_type, query.limit)
    IN IF ~bbox_result.ok THEN bbox_result.value
       ELSE IF ~filters.ok THEN filters.value
       ELSE IF ~db_ok THEN InternalError
       ELSE FeatureCollection

\* the texts of the numbers the checks compare with, one below and one above
\* each limit, and texts that are no number
MaxBBoxParts == 5
MinLonTexts == {fmt_i32(v) : v \in {-181, -180, 0, 181}} \cup {<<"x">>, <<"N", "a", "N">>}
MinLatTexts == {fmt_i32(v) : v \in {-91, -90, 0, 91}} \cup {<<>>, <<"N", "a", "N">>}
MaxLonTexts == {fmt_i32(v) : v \in {-181, 0, 180, 181}} \cup {<<" ", "1">>, <<"N", "a", "N">>}
MaxLatTexts == {fmt_i32(v) : v \in {-91, 0, 90, 91}} \cup {<<"1", "x">>, <<"i", "n", "f">>}

BBoxTexts ==
    {join(<<a, b, c, d>>) : a \in MinLonTexts, b \in MinLatTexts,
                            c \in MaxLonTexts, d \in MaxLatTexts}
    \cup {join([i \in 1..n |-> fmt_i32(i)]) : n \in (1..MaxBBoxParts) \ {4}}
    \cup {join([i \in 1..n |-> <<"x">>]) : n \in (1..MaxBBoxParts) \ {4}}
    \cup {<<>>}

FilterInputs ==
    {[angle_type |-> None, limit |-> None],
     [angle_type |-> Some(<<"sharp", "normal">>), limit |-> Some(10)],
     [angle_type |-> Some(<<"sharp", "even">>), limit |-> None],
     [angle_type |-> None, limit |-> Some(0)]}

InitGetJunctions ==
    /\ NewIndex
    /\ NoRun
    /\ NoBackfill
    /\ NoAngleCall
    /\ NoParseCall
    /\ NoLoggedAdd
    /\ NoProvider
    /\ NoInsertCall
    /\ NoStore
    /\ NoUpdateCall
    /\ \E text \in BBoxTexts, f \in FilterInputs :
          fn_in = [bbox |-> text, angle_type |-> f.angle_type, limit |-> f.limit]
    /\ fn_out = None

GetJunctions(db_ok) ==
    /\ fn_out = None
    /\ fn_out' = Some(get_junctions(fn_in, db_ok))
    /\ UNCHANGED <<index_vars, query_vars, angle_vars, pipeline_vars, last_add, fn_in,
                   provider_vars, inserter_vars, store_vars, update_vars, run_vars, backfill_vars>>

NextGetJunctions == \E db_ok \in BOOLEAN : GetJunctions(db_ok)

SpecGetJunctions == InitGetJunctions /\ [][NextGetJunctions]_vars

\* the parts of the bbox parameter of the request and the numbers they are read as
BBoxParts == split(fn_in.bbox, ",")
BBoxNumber(i) == parse_f64(BBoxParts[i])

\* the checks in the documented order, each on a bbox that passed those before it
FormatFails == Len(BBoxParts) # 4
CoordinatesFail == ~FormatFails /\ \E i \in 1..4 : BBoxNumber(i) = None
RangeFails ==
    /\ ~FormatFails /\ ~CoordinatesFail
    /\ \/ f64_ge(BBoxNumber(1)[1], BBoxNumber(3)[1])
       \/ f64_ge(BBoxNumber(2)[1], BBoxNumber(4)[1])
LimitsFail ==
    /\ ~FormatFails /\ ~CoordinatesFail /\ ~RangeFails
    /\ \/ f64_lt(BBoxNumber(1)[1], -180) \/ f64_gt(BBoxNumber(3)[1], 180)
       \/ f64_lt(BBoxNumber(2)[1], -90) \/ f64_gt(BBoxNumber(4)[1], 90)
BBoxPasses == ~FormatFails /\ ~CoordinatesFail /\ ~RangeFails /\ ~LimitsFail

\* C27: the answer to GET /api/junctions is 400 with the message of the first
\* check the bbox fails, in the order format, coordinates, range, limits, and the
\* repository is queried only for a bbox that passes all four.
C27_FirstFailingCheck ==
    fn_out # None =>
        LET r == fn_out[1] IN
        /\ FormatFails =>
              r = BadRequest("bbox must be in format: min_lon,min_lat,max_lon,max_lat")
        /\ CoordinatesFail => r = BadRequest("Invalid bbox coordinates")
        /\ RangeFails => r = BadRequest("Invalid bbox range")
        /\ LimitsFail => r = BadRequest("bbox out of valid range")
        /\ r.queried => BBoxPasses
        /\ (BBoxPasses /\ to_filter_params(fn_in.angle_type, fn_in.limit).ok) => r.queried

\* a bbox with min_lon >= max_lon and beyond the limits: answered "Invalid bbox range"
C27_Witness ==
    /\ fn_out = Some(BadRequest("Invalid bbox range"))
    /\ BBoxNumber(1)[1] = 181 /\ BBoxNumber(3)[1] = 180

C27_WitnessFormat ==
    /\ fn_out = Some(BadRequest("bbox must be in format: min_lon,min_lat,max_lon,max_lat"))
    /\ Len(BBoxParts) = 3
C27_WitnessCoordinates ==
    /\ fn_out = Some(BadRequest("Invalid bbox coordinates"))
    /\ BBoxNumber(1) = None /\ BBoxNumber(3) = Some(-181)
C27_WitnessLimits ==
    /\ fn_out = Some(BadRequest("bbox out of valid range"))
    /\ BBoxNumber(1)[1] = -181 /\ BBoxNumber(3)[1] = 0
C27_WitnessQueried ==
    /\ fn_out = Some(FeatureCollection)
    /\ <<BBoxNumber(1)[1], BBoxNumber(2)[1], BBoxNumber(3)[1], BBoxNumber(4)[1]>>
          = <<-180, -90, 180, 90>>
\* the text NaN is read as a number that fails no comparison: the query is made
C27_WitnessNaN ==
    /\ fn_out = Some(FeatureCollection)
    /\ \A i \in 1..3 : is_nan(BBoxNumber(i)[1])

(***************************************************************************)
(* SpecAngleType: the angle_type filter of find_by_bbox and the angle_type *)
(* of the Junction it would return, for one stored junction.               *)
(***************************************************************************)
\* AngleType::from_angles(angle_1, _angle_2, angle_3)
from_angles(angle_1, angle_2, angle_3) ==
    IF angle_3 > 200 THEN "Skewed"
    ELSE IF angle_1 < 30 THEN "VerySharp"
    ELSE IF angle_1 < 45 THEN "Sharp"
    ELSE "Normal"

\* Junction::angle_type: from_angles on the angles sorted ascending
angle_type(junction) ==
    LET angles == sort_from(<<junction.angle_1, junction.angle_2, junction.angle_3>>, 1, <<>>)
    IN from_angles(angles[1], angles[2], angles[3])

\* SQL LEAST(angle_1, angle_2, angle_3)
LEAST(junction) == Min3(junction.angle_1, junction.angle_2, junction.angle_3)

\* the condition add_angle_type_filter pushes for one angle type, on a row
angle_type_condition(t, junction) ==
    CASE t = "VerySharp" -> LEAST(junction) < 30
      [] t = "Sharp" -> LEAST(junction) >= 30 /\ LEAST(junction) < 45
      [] t = "Normal" -> LEAST(junction) >= 45

\* the angle types add_angle_type_filter has an arm for
FilterTypes == {"VerySharp", "Sharp", "Normal"}

\* angles around the limits of the classes
StoredAngles == {0, 20, 29, 30, 44, 45, 59, 100, 120, 160, 200, 201, 220, 300}

InitAngleType ==
    /\ NewIndex
    /\ NoRun
    /\ NoBackfill
    /\ NoAngleCall
    /\ NoParseCall
    /\ NoLoggedAdd
    /\ NoProvider
    /\ NoInsertCall
    /\ NoStore
    /\ NoUpdateCall
    /\ \E a, b, c \in StoredAngles, t \in FilterTypes :
          fn_in = [junction |-> [angle_1 |-> a, angle_2 |-> b, angle_3 |-> c], filter |-> t]
    /\ fn_out = None

\* the row is tested by the filter and, as a Junction, asked its angle_type
FilterAndClassify ==
    /\ fn_out = None
    /\ fn_out' = Some([selected |-> angle_type_condition(fn_in.filter, fn_in.junction),
                       angle_type |-> angle_type(fn_in.junction)])
    /\ UNCHANGED <<index_vars, query_vars, angle_vars, pipeline_vars, last_add, fn_in,
                   provider_vars, inserter_vars, store_vars, update_vars, run_vars, backfill_vars>>

NextAngleType == FilterAndClassify

SpecAngleType == InitAngleType /\ [][NextAngleType]_vars

\* C28 as stated: the filter angle_type=T selects a junction exactly if
\* Junction::angle_type() classifies it as T.
C28_FilterMatchesClassification ==
    fn_out # None => (fn_out[1].selected <=> fn_out[1].angle_type = fn_in.filter)

\* what holds: every junction has one angle type; among the junctions whose
\* largest angle is at most 200 the filter selects exactly those of its type,
\* and a junction whose largest angle is above 200 is Skewed and is selected by
\* the filter of the type its smallest angle gives
C28_FilterMatchesUnlessSkewed ==
    fn_out # None =>
        LET j == fn_in.junction
            largest == sort_from(<<j.angle_1, j.angle_2, j.angle_3>>, 1, <<>>)[3]
        IN /\ fn_out[1].angle_type \in {"VerySharp", "Sharp", "Skewed", "Normal"}
           /\ largest <= 200 => (fn_out[1].selected <=> fn_out[1].angle_type = fn_in.filter)
           /\ largest > 200 =>
                 /\ fn_out[1].angle_type = "Skewed"
                 /\ fn_out[1].selected <=> from_angles(LEAST(j), 0, 0) = fn_in.filter

\* the junction with angles 120, 20, 220 selected by the filter verysharp and
\* classified Skewed
C28_WitnessSkewedSelected ==
    /\ fn_in.junction = [angle_1 |-> 120, angle_2 |-> 20, angle_3 |-> 220]
    /\ fn_in.filter = "VerySharp"
    /\ fn_out = Some([selected |-> TRUE, angle_type |-> "Skewed"])

\* the junction with angles 160, 30, 200 selected by the filter sharp, classified Sharp
C28_WitnessSharp ==
    /\ fn_in.junction = [angle_1 |-> 160, angle_2 |-> 30, angle_3 |-> 200]
    /\ fn_in.filter = "Sharp"
    /\ fn_out = Some([selected |-> TRUE, angle_type |-> "Sharp"])

\* the rows for which the DEM had the elevation of the junction and of all three
\* neighbor points, among those handled so far
Covered == {bf_trace[i].id : i \in {k \in DOMAIN bf_trace :
                                       bf_trace[k].junction /\ bf_trace[k].neighbors}}

\* C29: the back-fill collects an update for exactly the rows at which the DEM had
\* the junction elevation and all three neighbor elevations; the table changes
\* only at the commit, where each such row gets its elevation columns and keeps
\* the others, and every other row stays as it was; the count returned is the
\* number of rows updated.
C29_BackfillExactlyCovered ==
    /\ [](Range(updates) = Covered /\ Len(updates) = Cardinality(Covered))
    /\ []((bf_pc = "done" /\ bf_ret # None /\ bf_ret[1].ok) =>
             /\ bf_ret[1].value = Cardinality(Covered)
             /\ Len(bf_trace) = Cardinality(DOMAIN store)
             /\ \A id \in Covered : store[id].elevation)
    /\ [][store' # store =>
             /\ DOMAIN store' = DOMAIN store
             /\ \A id \in DOMAIN store :
                   IF id \in Covered
                   THEN store'[id] = Row(store[id].written_by, TRUE)
                   ELSE store'[id] = store[id]]_vars

\* a back-fill over three rows without elevation: two are updated, the third,
\* whose junction has an elevation and one of whose neighbor points has none,
\* is left without
C29_Witness ==
    /\ bf_pc = "done"
    /\ bf_ret = Some(UpdateOk(2))
    /\ Cardinality(DOMAIN store) = 3
    /\ \E i \in DOMAIN bf_trace :
          /\ bf_trace[i].junction /\ ~bf_trace[i].neighbors
          /\ ~store[bf_trace[i].id].elevation
    /\ \A id \in Covered : store[id].elevation

\* a row skipped for want of the junction elevation, and a back-fill with no
\* row to update
C29_WitnessNoJunctionElevation ==
    /\ bf_pc = "done"
    /\ bf_ret = Some(UpdateOk(1))
    /\ \E i \in DOMAIN bf_trace : ~bf_trace[i].junction /\ ~store[bf_trace[i].id].elevation
C29_WitnessNothingCovered ==
    /\ bf_pc = "done"
    /\ bf_ret = Some(UpdateOk(0))
    /\ Len(bf_trace) = 3
    /\ db_log = <<>>

(***************************************************************************)
(* The cache of the ElevationProvider over any sequence of get_elevation   *)
(* calls (SpecProvider).                                                   *)
(***************************************************************************)
\* the file indexed for the mesh code of the lookup does not parse
LookupOfUnparsedFile(l) ==
    LET mesh_code == calculate_mesh_code(l.lat, l.lon)
    IN /\ mesh_code \in DOMAIN mesh_to_file
       /\ ~parse_xml_file(dem_files, mesh_to_file[mesh_code]).ok

\* C30: every cached mesh code is an indexed one; a call of get_elevation adds
\* at most the tile of its mesh code to the cache and removes or replaces none;
\* mesh_to_file never changes; the tile of a file that does not parse is never
\* cached, so every lookup of its mesh code misses the cache, parses again and
\* answers Ok(None).
C30_CacheGrowsWithinIndex ==
    /\ [](/\ DOMAIN cache \subseteq DOMAIN mesh_to_file
          /\ \A m \in DOMAIN cache : parse_xml_file(dem_files, mesh_to_file[m]).ok
          /\ \A i \in DOMAIN lookups :
                LookupOfUnparsedFile(lookups[i]) =>
                    /\ ~lookups[i].hit
                    /\ lookups[i].result = Ok(None)
                    /\ lookups[i].cached[1] = lookups[i].cached[2])
    /\ [][/\ DOMAIN cache \subseteq DOMAIN cache'
          /\ \A m \in DOMAIN cache : cache'[m] = cache[m]
          /\ DOMAIN cache' \subseteq
                (DOMAIN cache) \cup {calculate_mesh_code(lookups'[Len(lookups')].lat,
                                                         lookups'[Len(lookups')].lon)}
          /\ mesh_to_file' = mesh_to_file]_vars

\* a tile cached, then two lookups of a mesh code whose file does not parse,
\* the tile still cached
C30_Witness ==
    /\ Len(lookups) = 3
    /\ ~LookupOfUnparsedFile(lookups[1]) /\ lookups[1].cached = <<0, 1>>
    /\ LookupOfUnparsedFile(lookups[2])
    /\ lookups[3].lat = lookups[2].lat /\ lookups[3].lon = lookups[2].lon
    /\ Cardinality(DOMAIN cache) = 1

\* two tiles cached by two lookups, the third a hit
C30_WitnessTwoTiles ==
    /\ Len(lookups) = 3
    /\ Cardinality(DOMAIN cache) = 2
    /\ lookups[3].hit


====
